---- MODULE Spec2Model ----
(***************************************************************************)
(* Verification model of the asynchronous product-research pipeline of     *)
(* backend-python: the circuit breaker (app/core/circuit_breaker.py), the  *)
(* job lifecycle (app/domain/product_entities.py and the services), the    *)
(* batch research call (app/infra/llm) and the preview merge.              *)
(*                                                                         *)
(* Each component has its own specification (SpecBreaker, SpecJobs, ...):  *)
(* the variables of the other components keep their initial values.        *)
(***************************************************************************)
EXTENDS Integers, Sequences, FiniteSets, TLC

VARIABLES
    \* ---- circuit breaker (one CircuitBreaker instance, "perplexity_api")
    now,                \* time.time(), in seconds
    state,              \* _state: "closed" | "open" | "half_open"
    failure_count,      \* _failure_count
    success_count,      \* _success_count
    last_failure_time,  \* _last_failure_time
    last_success_time,  \* _last_success_time
    total_calls,        \* _total_calls
    total_failures,     \* _total_failures
    total_successes,    \* _total_successes
    call_history,       \* _call_history: (timestamp, success) of each recorded call;
                        \* duration_ms, which only get_stats averages, is left out
    in_flight,          \* the start_time local of every call()/acall() whose
                        \* operation is executing, oldest first
    admin_ops,          \* reset()/force_open() calls made so far
    ret,                \* what the latest step of call()/acall() gave its caller:
                        \* nothing yet, the fail-fast error, a value, or the operation's error
    obs                 \* history variable (not program state), for the claims:
                        \*   fails: failures recorded in a row since the breaker was last
                        \*          CLOSED with failure counter 0 (-1: a success, force_open
                        \*          or the error-rate rule came between)
                        \*   oks:   successes recorded in a row in the present HALF_OPEN state
                        \*   rate:  the breaker is not CLOSED and it was the error-rate
                        \*          rule that last took it out of CLOSED
                        \*   recovered: the breaker has gone from HALF_OPEN to CLOSED
                        \*          and no failure was recorded since

VARIABLES
    \* ---- one research_products() call, of the research coordinator or of
    \*      the research client
    r_impl,             \* whose research_products() it is
    r_items,            \* items: the batch handed to research_products()
    r_resp,             \* what the one outbound API call gives
    r_out,              \* what research_products() gave its caller
    r_calls,            \* outbound API calls made (through the circuit breaker)
    r_pc                \* "ready" before the call, "done" after it

VARIABLES
    \* ---- research jobs of the service (ProductResearchJob in _jobs)
    jobs,               \* _jobs: job id -> ProductResearchJob ("absent": not stored)
    task,               \* per job id: position of its background task
    utcnow,             \* datetime.utcnow(), in ticks
    cancel_ret,         \* the latest cancel_job(): the id asked for, the status it
                        \* found there ("missing": nothing stored), the value returned
    results_ret         \* the latest get_job_results(): the id and flag asked for and
                        \* what it gave: None, a job's results, or an exception

VARIABLES
    \* ---- one preview result and the research result merged into it
    m_preview,          \* preview_result, as the merges so far left it
    m_research,         \* research_result
    m_merges,           \* calls of _merge_research_into_preview made so far
    m_once              \* history variable: preview_result as the first merge left it

VARIABLES
    \* ---- the circuit breaker registry (CircuitBreakerRegistry, class level)
    breakers,           \* _breakers: service name -> CircuitBreaker (NoBreaker: no entry)
    lock,               \* _lock: the thread holding it, or Free
    made,               \* CircuitBreaker objects constructed so far (object identity)
    callers,            \* per thread: where it is in get_breaker(), its arguments
                        \* and the value its latest get_breaker() returned
    given               \* history variable: per service name, the values get_breaker()
                        \* returned since the name was last removed

VARIABLES
    \* ---- the WebSocket endpoint and the ConnectionManager of one server process
    job_connections,    \* job_connections: job id -> the WebSocket objects registered
                        \* (no key: the empty list); connection_jobs is its inverse
    handlers,           \* the endpoint handlers suspended before their registration
    ws_made,            \* WebSocket objects handed to the endpoint so far
    handshake           \* how the latest finished connection attempt ended

VARIABLES
    \* ---- the receive loop of one registered WebSocket connection
    ws_now,             \* time.time(), in seconds since the connection was registered
    loop                \* pc: "receive" (awaiting receive_text()), "closed";
                        \* last_ping; inbox: the message the client sent and the
                        \* server has not received yet; history: last_sent (when the
                        \* client last sent), closed_by (who ended the loop)

VARIABLES
    \* ---- job updates across processes
    procs,              \* per process: redis_client and is_listening of its
                        \* RedisPubSubManager, inbox (channel messages its listener
                        \* has not read yet), subscribed (jobs with connections in its
                        \* ConnectionManager), sent (what was sent to those connections)
    published           \* history variable: the publish_job_update() calls made, each
                        \* with its process and the servers then listening for its job

VARIABLES
    \* ---- one create_job() call of a job manager
    creation            \* manager, items: whose create_job() and its batch;
                        \* pc: "ready" before the call, "done" after it; raised: the
                        \* exception it raised; stored: a job was stored or persisted

VARIABLES
    \* ---- the end of a background task, from job.complete() on
    hook                \* job: the job; before: the job as complete() left it;
                        \* has_url: metadata holds "callback_url"; pc: "completed",
                        \* "posting" (the POST is awaited), "over"; outcome: what
                        \* the POST gave; escaped: an exception left the task

VARIABLES
    \* ---- cancel_job of ResearchJobManager and cancel_research_job of
    \*      ResearchService, over the rows of ResearchJobRepository
    repo_rows,          \* job id -> the status of its row, "missing" without a row
    repo_call           \* the last call: by, id, found (the status read), raised,
                        \* ret, updated (the repository wrote the row)

VARIABLES
    \* ---- one call of ResearchExecutor.execute_research_with_retries
    retry               \* max_retries; attempt: the loop variable; calls: the
                        \* execute_research() calls made; codes: the error codes of
                        \* the ExternalServiceExceptions caught; pc: "calling",
                        \* "returned", "raised"; raised: what left the method

VARIABLES
    \* ---- one ConnectionManager, its sockets and one broadcast at a time
    cm_job_connections, \* job_connections: job id -> list of sockets (a dict: its
                        \* domain is the keys present)
    cm_connection_jobs, \* connection_jobs: socket -> job id (a dict)
    cm_socket,          \* socket -> state ("new", "accepted", "failed": what
                        \* accept() made of it), pending (the job id of a connect()
                        \* that awaits accept(), or "none")
    cm_cast             \* send_message_to_job: job; connections (the copy); next
                        \* (the place in it); disconnected; pc ("idle", "sending",
                        \* "done"); delivered, stray: history of the sends made

VARIABLES
    \* ---- the listener task of one RedisPubSubManager and what the broker
    \*      hands it
    channel,            \* the messages pubsub.listen() has yet to yield, in order
    listener            \* running: _listen_for_messages is in its loop; received:
                        \* the messages it has taken, each with whether its
                        \* forwarding raised (history); forwarded: the send_job_*
                        \* calls that returned, in order: <<job_id, WebSocketMessage type>>

breakerVars == <<now, state, failure_count, success_count, last_failure_time,
                 last_success_time, total_calls, total_failures, total_successes,
                 call_history, in_flight, admin_ops, ret, obs>>

researchVars == <<r_impl, r_items, r_resp, r_out, r_calls, r_pc>>

jobVars == <<jobs, task, utcnow, cancel_ret, results_ret>>

mergeVars == <<m_preview, m_research, m_merges, m_once>>

registryVars == <<breakers, lock, made, callers, given>>

wsVars == <<job_connections, handlers, ws_made, handshake>>

wsLoopVars == <<ws_now, loop>>

pubSubVars == <<procs, published>>

createJobVars == <<creation>>

webhookVars == <<hook>>

repoCancelVars == <<repo_rows, repo_call>>

retryVars == <<retry>>

managerVars == <<cm_job_connections, cm_connection_jobs, cm_socket, cm_cast>>

listenerVars == <<channel, listener>>

vars == <<breakerVars, researchVars, jobVars, mergeVars, registryVars, wsVars,
          wsLoopVars, pubSubVars, createJobVars,
          webhookVars,
          repoCancelVars,
          retryVars,
          managerVars,
          listenerVars>>

\* what is not the circuit breaker's, the research call's, the jobs', ...
notBreaker == <<researchVars, jobVars, mergeVars, registryVars, wsVars, wsLoopVars, pubSubVars,
    createJobVars,
    webhookVars,
    repoCancelVars,
    retryVars,
    managerVars,
    listenerVars>>
notResearch == <<breakerVars, jobVars, mergeVars, registryVars, wsVars, wsLoopVars, pubSubVars,
    createJobVars,
    webhookVars,
    repoCancelVars,
    retryVars,
    managerVars,
    listenerVars>>
notJobs == <<breakerVars, researchVars, mergeVars, registryVars, wsVars, wsLoopVars, pubSubVars,
    createJobVars,
    webhookVars,
    repoCancelVars,
    retryVars,
    managerVars,
    listenerVars>>
notMerge == <<breakerVars, researchVars, jobVars, registryVars, wsVars, wsLoopVars, pubSubVars,
    createJobVars,
    webhookVars,
    repoCancelVars,
    retryVars,
    managerVars,
    listenerVars>>
notRegistry == <<breakerVars, researchVars, jobVars, mergeVars, wsVars, wsLoopVars, pubSubVars,
    createJobVars,
    webhookVars,
    repoCancelVars,
    retryVars,
    managerVars,
    listenerVars>>
notWs == <<breakerVars, researchVars, jobVars, mergeVars, registryVars, wsLoopVars, pubSubVars,
    createJobVars,
    webhookVars,
    repoCancelVars,
    retryVars,
    managerVars,
    listenerVars>>
notWsLoop == <<breakerVars, researchVars, jobVars, mergeVars, registryVars, wsVars, pubSubVars,
    createJobVars,
    webhookVars,
    repoCancelVars,
    retryVars,
    managerVars,
    listenerVars>>
notPubSub == <<breakerVars, researchVars, jobVars, mergeVars, registryVars, wsVars, wsLoopVars,
    createJobVars,
    webhookVars,
    repoCancelVars,
    retryVars,
    managerVars,
    listenerVars>>
notCreateJob == <<breakerVars, researchVars, jobVars, mergeVars, registryVars, wsVars, wsLoopVars,
    pubSubVars,
    webhookVars,
    repoCancelVars,
    retryVars,
    managerVars,
    listenerVars>>
notWebhook == <<breakerVars, researchVars, jobVars, mergeVars,
    registryVars, wsVars, wsLoopVars, pubSubVars, createJobVars,
    repoCancelVars,
    retryVars,
    managerVars,
    listenerVars>>
notRepoCancel == <<breakerVars, researchVars, jobVars, mergeVars,
    registryVars, wsVars, wsLoopVars, pubSubVars, createJobVars, webhookVars,
    retryVars,
    managerVars,
    listenerVars>>
notRetry == <<breakerVars, researchVars, jobVars, mergeVars,
    registryVars, wsVars, wsLoopVars, pubSubVars, createJobVars, webhookVars, repoCancelVars,
    managerVars,
    listenerVars>>
notManager == <<breakerVars, researchVars, jobVars, mergeVars,
    registryVars, wsVars, wsLoopVars, pubSubVars, createJobVars, webhookVars, repoCancelVars, retryVars,
    listenerVars>>
notListener == <<breakerVars, researchVars, jobVars, mergeVars,
    registryVars, wsVars, wsLoopVars, pubSubVars, createJobVars, webhookVars, repoCancelVars, retryVars, managerVars>>

----------------------------------------------------------------------------
(* Bounds of the model *)

\* the clock advances in steps of Tick seconds, MaxTicks times at most
Tick == 150
MaxTicks == 2
\* wrapped operations invoked at most
MaxCalls == 9
\* reset() / force_open() called at most
MaxAdminOps == 1

\* concurrent callers of the one breaker
Callers == {"c1", "c2"}
Concurrency == Cardinality(Callers)

(* Configuration the API client builds its breaker with *)
failure_threshold == 3
success_threshold == 2
timeout_seconds == 120
max_failures_per_window == 5
window_seconds == 300
slow_call_threshold_ms == 30000
\* error_rate_threshold = 0.6, as a percentage
error_rate_threshold_pct == 60
\* "Need minimum calls to calculate rate"
MinSamples == 5

\* time.time() at construction: later than any window or timeout after 0
StartTime == window_seconds + timeout_seconds
MaxTime == StartTime + MaxTicks * Tick

Max(a, b) == IF a >= b THEN a ELSE b

----------------------------------------------------------------------------
(* CircuitBreaker: pure parts *)

\* _cleanup_old_calls: keep the calls newer than the window
cleanup_old_calls(h, t) ==
    SelectSeq(h, LAMBDA c : c.ts > t - window_seconds)

Failures(h) == Len(SelectSeq(h, LAMBDA c : ~c.ok))

\* the rule without its floor of max_failures_per_window failures
check_error_rate_NoFloor(h, t) ==
    LET recent == SelectSeq(h, LAMBDA c : c.ts > t - window_seconds)
    IN  /\ Len(h) >= MinSamples
        /\ Len(recent) >= MinSamples
        /\ Failures(recent) * 100 >= error_rate_threshold_pct * Len(recent)

\* _check_error_rate: TRUE when it sets the state to OPEN
check_error_rate(h, t) ==
    LET recent == SelectSeq(h, LAMBDA c : c.ts > t - window_seconds)
    IN  /\ Len(h) >= MinSamples
        /\ Len(recent) >= MinSamples
        /\ Failures(recent) * 100 >= error_rate_threshold_pct * Len(recent)
        /\ Failures(recent) >= max_failures_per_window

\* a breaker that forgets the cool-down: OPEN is left at the next call
TimeoutElapsed_NoWait(t) == t - last_failure_time >= 0

\* the OPEN -> HALF_OPEN test of call()/acall()
TimeoutElapsed(t) == t - last_failure_time >= timeout_seconds

\* estimated_recovery of the fail-fast exception, read at time t
EstimatedRecovery(t) == Max(0, last_failure_time + timeout_seconds - t)

\* duration_ms of a call started at s and ended at t
DurationMs(s, t) == (t - s) * 1000

\* no call is slow
IsSlow_Never(d) == FALSE

IsSlow(d) == d > slow_call_threshold_ms

----------------------------------------------------------------------------
(* CircuitBreaker: operations *)

NoRet == [kind |-> "none", recovery |-> 0]

InitBreaker ==
    /\ now = StartTime
    /\ state = "closed"
    /\ failure_count = 0
    /\ success_count = 0
    /\ last_failure_time = 0
    /\ last_success_time = 0
    /\ total_calls = 0
    /\ total_failures = 0
    /\ total_successes = 0
    /\ call_history = <<>>
    /\ in_flight = <<>>
    /\ admin_ops = 0
    /\ ret = NoRet
    /\ obs = [fails |-> 0, oks |-> 0, rate |-> FALSE, recovered |-> FALSE]

\* operations invoked so far: the recorded calls and those executing
Invoked == total_calls + Len(in_flight)

\* the calls in flight but the i-th
Without(s, i) == SubSeq(s, 1, i - 1) \o SubSeq(s, i + 1, Len(s))

\* the error-rate rule is looked at in every state
ChecksErrorRate_AnyState(st) == TRUE

\* call()/acall(): the state in which the error-rate rule is looked at
ChecksErrorRate(st) == st = "closed"

\* call()/acall(), the part under the lock: purge, error-rate check, state gate
\* by a caller that is in no call
Call ==
    /\ Len(in_flight) < Concurrency
    /\ LET h1 == cleanup_old_calls(call_history, now)
           opens == ChecksErrorRate(state) /\ check_error_rate(h1, now)
           st1 == IF opens THEN "open" ELSE state
           fc1 == IF opens THEN Failures(h1) ELSE failure_count
       IN  /\ call_history' = h1
           /\ failure_count' = fc1
           /\ obs' = [fails |-> IF opens THEN -1 ELSE obs.fails,
                      oks |-> IF st1 = "open" THEN 0 ELSE obs.oks,
                      rate |-> opens \/ obs.rate,
                      recovered |-> obs.recovered]
           /\ IF st1 = "open" /\ ~TimeoutElapsed(now)
              THEN \* fail fast; the clock may move before the estimate is taken
                   \E later \in {now, now + Tick} :
                      /\ later <= MaxTime
                      /\ now' = later
                      /\ state' = st1
                      /\ ret' = [kind |-> "circuit_open",
                                 recovery |-> EstimatedRecovery(later)]
                      /\ UNCHANGED <<success_count, in_flight>>
              ELSE /\ Invoked < MaxCalls
                   /\ state' = IF st1 = "open" THEN "half_open" ELSE st1
                   /\ success_count' = IF st1 = "open" THEN 0 ELSE success_count
                   /\ in_flight' = Append(in_flight, now)
                   /\ ret' = NoRet
                   /\ UNCHANGED now
    /\ UNCHANGED <<last_failure_time, last_success_time, total_calls,
                   total_failures, total_successes, admin_ops>>
    /\ UNCHANGED notBreaker

\* off by one: one success more than success_threshold is asked for
SuccessCloses_OffByOne(sc) == sc > success_threshold

\* the test of _record_success that closes a HALF_OPEN breaker
SuccessCloses(sc) == sc >= success_threshold

\* the failure counter is reset by a success
Decremented_Reset(fc) == 0

\* _record_success in CLOSED: max(0, self._failure_count - 1)
Decremented(fc) == Max(0, fc - 1)

\* _record_success at current_time t
record_success(t) ==
    /\ total_calls' = total_calls + 1
    /\ total_successes' = total_successes + 1
    /\ last_success_time' = t
    /\ call_history' = Append(call_history, [ts |-> t, ok |-> TRUE])
    /\ IF state = "half_open"
       THEN /\ success_count' = success_count + 1
            /\ IF SuccessCloses(success_count + 1)
               THEN state' = "closed" /\ failure_count' = 0
               ELSE UNCHANGED <<state, failure_count>>
       ELSE /\ failure_count' = IF state = "closed"
                                THEN Decremented(failure_count)
                                ELSE failure_count
            /\ UNCHANGED <<state, success_count>>
    /\ UNCHANGED <<last_failure_time, total_failures>>

\* off by one: one failure more than failure_threshold is asked for
FailureOpens_OffByOne(st, fc) ==
    st \in {"closed", "half_open"} /\ fc > failure_threshold

\* the test of _record_failure that opens the breaker
FailureOpens(st, fc) ==
    st \in {"closed", "half_open"} /\ fc >= failure_threshold

\* a failure whose increment of total_calls is lost
record_failure_LostUpdate(t) ==
    /\ total_failures' = total_failures + 1
    /\ last_failure_time' = t
    /\ failure_count' = failure_count + 1
    /\ call_history' = Append(call_history, [ts |-> t, ok |-> FALSE])
    /\ IF FailureOpens(state, failure_count + 1)
       THEN state' = "open" /\ success_count' = 0
       ELSE UNCHANGED <<state, success_count>>
    /\ UNCHANGED <<last_success_time, total_successes, total_calls>>

\* _record_failure at current_time t
record_failure(t) ==
    /\ total_calls' = total_calls + 1
    /\ total_failures' = total_failures + 1
    /\ last_failure_time' = t
    /\ failure_count' = failure_count + 1
    /\ call_history' = Append(call_history, [ts |-> t, ok |-> FALSE])
    /\ IF FailureOpens(state, failure_count + 1)
       THEN state' = "open" /\ success_count' = 0
       ELSE UNCHANGED <<state, success_count>>
    /\ UNCHANGED <<last_success_time, total_successes>>

\* the wrapped operation ends (returns or raises) and call()/acall() records
\* the outcome under the lock, then returns the value or re-raises.  The
\* operation's end and the _record_* call are one step: nothing of the
\* breaker is read or written between them.
Complete(i, raised) ==
    /\ i \in 1..Len(in_flight)
    /\ LET d == DurationMs(in_flight[i], now)
       IN  IF ~raised /\ ~IsSlow(d)
           THEN record_success(now)
           ELSE record_failure(now)
    /\ in_flight' = Without(in_flight, i)
    /\ ret' = [kind |-> IF raised THEN "error" ELSE "value", recovery |-> 0]
    /\ obs' = IF total_failures' # total_failures
              THEN [fails |-> IF obs.fails >= 0 THEN obs.fails + 1 ELSE -1,
                    oks |-> 0,
                    rate |-> obs.rate,
                    recovered |-> FALSE]
              ELSE [fails |-> IF state' = "closed" /\ failure_count' = 0
                              THEN 0 ELSE -1,
                    oks |-> IF state = "half_open" THEN obs.oks + 1 ELSE 0,
                    rate |-> obs.rate /\ state' # "closed",
                    recovered |-> \/ obs.recovered
                                  \/ state = "half_open" /\ state' = "closed"]
    /\ UNCHANGED <<now, admin_ops>>
    /\ UNCHANGED notBreaker

\* reset()
Reset ==
    /\ admin_ops < MaxAdminOps
    /\ admin_ops' = admin_ops + 1
    /\ state' = "closed"
    /\ failure_count' = 0
    /\ success_count' = 0
    /\ call_history' = <<>>
    /\ obs' = [fails |-> 0, oks |-> 0, rate |-> FALSE, recovered |-> FALSE]
    /\ UNCHANGED <<now, last_failure_time, last_success_time, total_calls,
                   total_failures, total_successes, in_flight, ret>>
    /\ UNCHANGED notBreaker

\* force_open()
ForceOpen ==
    /\ admin_ops < MaxAdminOps
    /\ admin_ops' = admin_ops + 1
    /\ state' = "open"
    /\ last_failure_time' = now
    /\ obs' = [fails |-> -1, oks |-> 0, rate |-> FALSE, recovered |-> FALSE]
    /\ UNCHANGED <<now, failure_count, success_count, last_success_time,
                   total_calls, total_failures, total_successes, call_history,
                   in_flight, ret>>
    /\ UNCHANGED notBreaker

\* time passes
TickClock ==
    /\ now + Tick <= MaxTime
    /\ now' = now + Tick
    /\ UNCHANGED <<state, failure_count, success_count, last_failure_time,
                   last_success_time, total_calls, total_failures,
                   total_successes, call_history, in_flight, admin_ops, ret,
                   obs>>
    /\ UNCHANGED notBreaker

\* What the wrapped operation, PerplexityApiClient._call_api_internal, can end
\* with: the answer of a 200 response, or one of the failures, which the
\* specification sorts into retryable and fatal ones
Retryable == {"timeout", "http_5xx", "rate_limit"}
Fatal == {"http_4xx", "invalid_json"}
Outcomes == {"ok"} \cup Retryable \cup Fatal

\* _call_api_internal raises on a timeout, on every status but 200 and on a
\* body that is no JSON; acall() catches Exception, whatever its class
Raises(outcome) == outcome # "ok"

\* the end of a call whose operation ends with outcome
CompleteWith(i, outcome) == Complete(i, Raises(outcome))

NextBreaker ==
    \/ Call
    \/ \E i \in 1..Concurrency, raised \in BOOLEAN : Complete(i, raised)
    \/ Reset
    \/ ForceOpen
    \/ TickClock

----------------------------------------------------------------------------
(* Circuit breaker: claims *)

\* a step that records a failed call / a successful call
FailureRecorded == total_failures' = total_failures + 1
SuccessRecorded == total_successes' = total_successes + 1

\* C1: while the breaker is OPEN and fewer than timeout_seconds have passed
\* since last_failure_time, a call by any caller, whatever the other callers
\* are doing, ends with the circuit_open error carrying a recovery estimate
\* >= 0, and the wrapped operation is not invoked (the caller does not start
\* executing, nothing is recorded).
C1_FailFastWhileOpen ==
    [][(Call /\ state = "open" /\ now - last_failure_time < timeout_seconds)
          => /\ ret'.kind = "circuit_open"
             /\ ret'.recovery >= 0
             /\ in_flight' = in_flight
             /\ state' = "open"
             /\ total_calls' = total_calls]_vars

\* C1 witness: a call has just failed fast on an OPEN breaker inside the
\* cool-down while another caller's operation was in flight.
C1_Witness ==
    /\ ret.kind = "circuit_open"
    /\ state = "open"
    /\ now - last_failure_time < timeout_seconds
    /\ in_flight # <<>>

\* C2: counted from a CLOSED breaker with failure counter 0, with failures
\* only since, the breaker is OPEN once the failure_threshold-th failure is
\* recorded, and a recorded failure leaves it OPEN only from the
\* failure_threshold-th on (obs.fails is unset when the error-rate rule or
\* force_open opened the breaker).
C2_OpensAtThreshold ==
    [][(FailureRecorded /\ obs.fails >= 0)
          => /\ obs'.fails = obs.fails + 1
             /\ (state' = "open") <=> (obs'.fails >= failure_threshold)]_vars

\* C2 witness: exactly failure_threshold failures in a row from CLOSED/0 and
\* the breaker is OPEN.
C2_Witness ==
    /\ obs.fails = failure_threshold
    /\ state = "open"
    /\ failure_count = failure_threshold

\* C3: once timeout_seconds have passed since last_failure_time, a call on an
\* OPEN breaker moves it to HALF_OPEN with success counter 0 and invokes the
\* operation; and the success_threshold-th success in a row in HALF_OPEN
\* leaves the breaker CLOSED with failure counter 0.
C3_HalfOpenThenClosed ==
    [][/\ (Call /\ state = "open" /\ now - last_failure_time >= timeout_seconds)
            => /\ state' = "half_open"
               /\ success_count' = 0
               /\ in_flight' = Append(in_flight, now)
       /\ (SuccessRecorded /\ state = "half_open"
              /\ obs.oks + 1 >= success_threshold)
            => /\ state' = "closed"
               /\ failure_count' = 0]_vars

\* C3 witness: the breaker went OPEN by failures, was probed in HALF_OPEN and
\* has just been closed by success_threshold successes in a row.
C3_Witness ==
    /\ state = "closed"
    /\ obs.oks = success_threshold
    /\ total_failures >= failure_threshold
    /\ admin_ops = 0
    /\ ret.kind = "value"

\* C4 (as claimed): every failure recorded in HALF_OPEN leaves the breaker
\* OPEN, and a call closes a HALF_OPEN breaker only as the
\* success_threshold-th success in a row.
C4_HalfOpenFailureReopens ==
    [][/\ (FailureRecorded /\ state = "half_open") => state' = "open"
       /\ (SuccessRecorded /\ state = "half_open" /\ state' = "closed")
            => obs'.oks >= success_threshold]_vars

\* C15 (as claimed): the end of a call that failed with a fatal error (a 4xx
\* answer other than rate-limit, a malformed answer) leaves the failure counter
\* and total_failures as they were and does not open the breaker.
C15_FatalNotCounted ==
    [][\A i \in 1..Concurrency, o \in Fatal :
          CompleteWith(i, o)
          => /\ failure_count' = failure_count
             /\ total_failures' = total_failures
             /\ (state' = "open" => state = "open")]_vars

\* no record was added to the call history: what is left of it is its end
NoRecordAdded ==
    /\ Len(call_history') <= Len(call_history)
    /\ \A k \in 1..Len(call_history') :
          call_history'[k] = call_history[k + Len(call_history) - Len(call_history')]

Window(h, t) == SelectSeq(h, LAMBDA c : c.ts > t - window_seconds)

\* the error-rate rule on a window w
RateRule(w) ==
    /\ Len(w) >= MinSamples
    /\ Failures(w) * 100 >= error_rate_threshold_pct * Len(w)
    /\ Failures(w) >= max_failures_per_window

\* C17: on entry to a call while CLOSED the history is purged to the window,
\* and the breaker leaves CLOSED (it is OPEN, or HALF_OPEN when the timeout
\* has elapsed already) exactly when the window holds MinSamples records at
\* least, error_rate_threshold of them at least are failures and the
\* failures are max_failures_per_window at least; the failure counter is then
\* the number of failures of the window. With fewer than MinSamples records
\* the breaker stays CLOSED.
C17_ErrorRateOpens ==
    [][(Call /\ state = "closed")
          => LET w == Window(call_history, now)
             IN  /\ call_history' = w
                 /\ (state' # "closed") <=> RateRule(w)
                 /\ RateRule(w) => failure_count' = Failures(w)
                 /\ Len(w) < MinSamples => state' = "closed"]_vars

\* C17 witness: on entry to a call the error-rate rule has opened the CLOSED
\* breaker, setting the failure counter, and the call was rejected.
C17_Witness ==
    /\ obs.rate
    /\ state = "open"
    /\ ret.kind = "circuit_open"
    /\ admin_ops = 0
    /\ Len(call_history) >= MinSamples
    /\ failure_count = Failures(call_history)
    /\ failure_count >= max_failures_per_window

\* C39: once the breaker has gone from HALF_OPEN back to CLOSED it does not
\* leave CLOSED again (force_open() apart) but in a step that records a new
\* failure: the failures recorded before the recovery and still inside the
\* window do not reopen it.
C39_RecoveredStaysClosed ==
    [][(obs.recovered /\ state = "closed" /\ state' # "closed"
            /\ admin_ops' = admin_ops)
          => FailureRecorded]_vars

\* C18: the end of a call whose operation returned normally after more than
\* slow_call_threshold_ms is recorded as a failure (failure counter and
\* total_failures incremented, a history record with success = false, the
\* breaker OPEN when the counter reaches failure_threshold in CLOSED or
\* HALF_OPEN) and the value is returned to the caller.
C18_SlowCallIsFailure ==
    [][\A i \in 1..Concurrency :
          (/\ i \in 1..Len(in_flight)
           /\ (now - in_flight[i]) * 1000 > slow_call_threshold_ms
           /\ CompleteWith(i, "ok"))
          => /\ failure_count' = failure_count + 1
             /\ total_failures' = total_failures + 1
             /\ total_successes' = total_successes
             /\ call_history' = Append(call_history, [ts |-> now, ok |-> FALSE])
             /\ (state \in {"closed", "half_open"}
                    /\ failure_count + 1 >= failure_threshold) => state' = "open"
             /\ ret'.kind = "value"]_vars

\* C18 witness: a call has just returned its value, its record is a failure,
\* and the breaker is OPEN by it with no call having raised.
C18_Witness ==
    /\ ret.kind = "value"
    /\ call_history # <<>>
    /\ ~call_history[Len(call_history)].ok
    /\ call_history[Len(call_history)].ts = now
    /\ state = "open"
    /\ failure_count = failure_threshold
    /\ admin_ops = 0

C20_NoUpdateLost ==
    [][/\ total_calls = total_successes + total_failures
       /\ total_calls' = total_successes' + total_failures'
       /\ IF Len(in_flight') < Len(in_flight)
          THEN /\ Len(in_flight') = Len(in_flight) - 1
               /\ total_calls' = total_calls + 1
               /\ \E ok \in BOOLEAN :
                     /\ call_history' = Append(call_history, [ts |-> now, ok |-> ok])
                     /\ total_successes' = total_successes + (IF ok THEN 1 ELSE 0)
                     /\ total_failures' = total_failures + (IF ok THEN 0 ELSE 1)
          ELSE /\ total_calls' = total_calls
               /\ total_successes' = total_successes
               /\ total_failures' = total_failures
               /\ (call_history' = call_history \/ NoRecordAdded)]_vars

\* C20 witness: a call ended, with a failure, later than a call that is still
\* in flight began; successes and failures are both recorded.
C20_Witness ==
    /\ in_flight # <<>>
    /\ call_history # <<>>
    /\ call_history[Len(call_history)].ts > in_flight[1]
    /\ total_successes >= 1
    /\ total_failures >= 2
    /\ total_calls = total_successes + total_failures
    /\ Len(call_history) = total_calls

----------------------------------------------------------------------------
(* The batch research call: PerplexityResearchCoordinator.research_products *)
(* with PerplexityResponseParser.                                           *)
(*                                                                          *)
(* An item is known by its product name; the i-th item of a batch is named  *)
(* i. A rating is held in tenths (45 is 4.5), so that float() and the 0..5  *)
(* range test of ProductReviews are computed on integers. A list of sources *)
(* is held by its length, -1 standing for a JSON null.                      *)

MAX_RESEARCH_BATCH_SIZE == 10
MIN_SOURCES_REQUIRED == 3

\* batches of up to MaxItems items, response arrays of up to MaxElems elements
MaxItems == 11
MaxElems == 11

Min(a, b) == IF a <= b THEN a ELSE b

\* a product name that is none of the batch's, and the empty name
ForeignName == -1
NoName == 0

\* ProductResearchItem; partner: it carries product_id, product_url or product_image
Item(i, p) == [name |-> i, partner |-> p]
Batch(n) == [i \in 1..n |-> Item(i, FALSE)]

\* ProductResearchResult(): the fields the properties below read, the dataclass defaults
\*   data: the place in the response array the research fields were parsed
\*         from (0: none);  preview: metadata holds "coupang_info"
NewResult ==
    [name |-> NoName, status |-> "pending", rating_avg |-> 0, review_count |-> 0,
     sources |-> 0, error_message |-> "none", missing_fields |-> FALSE,
     data |-> 0, preview |-> FALSE]

\* _create_error_result
create_error_result(item, error) ==
    [NewResult EXCEPT !.name = item.name, !.status = "error", !.error_message = error]

ErrorResults(items, error) ==
    [i \in 1..Len(items) |-> create_error_result(items[i], error)]

\* an element of the JSON array of the response content
\*   kind:   "dict", or "other" for a number, string, list or null
\*   name:   "absent" (no product_name key), "echo" (the item's name), "other"
Elem(k, nm, st, r, c, s) ==
    [kind |-> k, name |-> nm, status |-> st, rating_avg |-> r, review_count |-> c,
     sources |-> s]

GoodElem == Elem("dict", "echo", "none", 45, 50, 3)

ElemSamples ==
    { GoodElem,
      Elem("dict", "absent", "none", 45, 50, 3),
      Elem("dict", "other", "none", 45, 50, 3),
      Elem("dict", "echo", "insufficient_sources", 0, 0, 0),
      Elem("dict", "echo", "none", 0, 0, 3),
      Elem("dict", "echo", "none", 900, 50, 3),
      Elem("dict", "echo", "none", 45, -1, 3),
      Elem("dict", "echo", "none", 45, 50, 1),
      Elem("dict", "echo", "none", 45, 50, -1),
      Elem("other", "absent", "none", 0, 0, 0) }

\* ProductReviews.__post_init__ raises on a rating outside 0..5 or a negative count
ReviewsValid(e) == e.rating_avg >= 0 /\ e.rating_avg <= 50 /\ e.review_count >= 0

\* _parse_reviews: a ProductReviews that raised is replaced by the default one
parse_reviews(e) ==
    IF ReviewsValid(e)
    THEN [rating_avg |-> e.rating_avg, review_count |-> e.review_count]
    ELSE [rating_avg |-> 0, review_count |-> 0]

\* _validate_and_set_status
IsSuccess(rv) == rv.rating_avg > 0 /\ rv.review_count > 0

\* _parse_single_result of element e, the i-th of the array, for item
parse_single_result(e, item, i) ==
    LET base == [NewResult EXCEPT
                    !.name = IF e.name = "other" THEN ForeignName ELSE item.name,
                    !.data = i]
        rv == parse_reviews(e)
    IN  IF e.status = "insufficient_sources"
        THEN [base EXCEPT !.status = "insufficient_sources", !.missing_fields = TRUE]
        ELSE [base EXCEPT !.rating_avg = rv.rating_avg,
                          !.review_count = rv.review_count,
                          !.sources = e.sources,
                          !.status = IF IsSuccess(rv) THEN "success"
                                     ELSE "insufficient_sources",
                          !.missing_fields = ~IsSuccess(rv)]

\* what the one outbound call gives: call_api() raising (kind "raise", status
\* being the cause: "transport", "timeout", "non_200", "circuit_open"), or a
\* response whose content is
\*   "no_content"    no choices[0].message.content in the response
\*   "not_json"      not JSON
\*   "error_object"  a JSON object with a "status" key
\*   "object"        another JSON object, of size keys
\*   "string"        a JSON string of size characters
\*   "scalar"        a JSON number or boolean
\*   "array"         a JSON array of elems, the response carrying citations
Resp(k, st, n, es, cs) ==
    [kind |-> k, status |-> st, size |-> n, elems |-> es, citations |-> cs]

\* _is_error_response
is_error_response(resp) ==
    /\ resp.kind = "error_object"
    /\ resp.status \in {"too_many_items", "insufficient_sources"}

\* _handle_error_response: one result, whatever the batch
handle_error_response(resp) ==
    IF resp.status = "too_many_items"
    THEN << [NewResult EXCEPT !.status = "too_many_items",
                              !.error_message = "too_many_items"] >>
    ELSE << [NewResult EXCEPT !.status = "error", !.error_message = "api_error"] >>

\* _add_citations_to_results on one result: len() of a null sources raises
CitationsRaise(results, citations) ==
    citations > 0 /\ \E i \in 1..Len(results) : results[i].sources < 0

add_citations_to_results(results, citations) ==
    [i \in 1..Len(results) |->
        IF citations > 0 /\ results[i].sources < MIN_SOURCES_REQUIRED
        THEN [results[i] EXCEPT !.sources =
                  @ + Min(citations, MIN_SOURCES_REQUIRED - @)]
        ELSE results[i]]

\* the loop of parse_batch_response over the array: it stops at len(items), and
\* an element that is no dict raises in _parse_single_result
Parsed(elems, items) == Min(Len(elems), Len(items))

ElementRaises(elems, items) ==
    \E i \in 1..Parsed(elems, items) : elems[i].kind = "other"

\* parse_batch_response
parse_batch_response(resp, items) ==
    CASE resp.kind = "no_content" -> ErrorResults(items, "exception")
      [] resp.kind = "not_json" -> ErrorResults(items, "parse_failed")
      [] resp.kind = "error_object" ->
            IF is_error_response(resp)
            THEN handle_error_response(resp)
            ELSE ErrorResults(items, "exception")
      [] resp.kind \in {"object", "string"} ->
            IF resp.size = 0 \/ Len(items) = 0 THEN <<>>
            ELSE ErrorResults(items, "exception")
      [] resp.kind = "scalar" -> ErrorResults(items, "exception")
      [] resp.kind = "array" ->
            LET results == [i \in 1..Parsed(resp.elems, items) |->
                               parse_single_result(resp.elems[i], items[i], i)]
            IN  IF \/ ElementRaises(resp.elems, items)
                   \/ CitationsRaise(results, resp.citations)
                THEN ErrorResults(items, "exception")
                ELSE add_citations_to_results(results, resp.citations)

\* what research_products() gives its caller
Returned(results) == [raised |-> FALSE, results |-> results]
Raised == [raised |-> TRUE, results |-> <<>>]

\* the ways the outbound call fails
Causes == {"transport", "timeout", "non_200", "circuit_open"}

\* str(e) of what call_api() raises. The circuit breaker, and _call_api_internal
\* on a timeout or a request error, raise ExternalServiceException, whose text
\* is its class and "External service error: <service_name>" (the details are
\* not in it); a non-200 answer raises PerplexityApiError with the status code
\* and the error text of the answer.
exception_text(cause) ==
    CASE cause \in {"transport", "timeout"} -> "External service error: perplexity"
      [] cause = "circuit_open" -> "External service error: perplexity_api"
      [] cause = "non_200" -> "API call failed: Perplexity API error <status>"
      [] OTHER -> "none"

\* the except clause of research_products: f"Research failed: {str(e)}"
research_failed(cause) ==
    CASE exception_text(cause) = "External service error: perplexity" ->
            "Research failed: External service error: perplexity"
      [] exception_text(cause) = "External service error: perplexity_api" ->
            "Research failed: External service error: perplexity_api"
      [] exception_text(cause) = "API call failed: Perplexity API error <status>" ->
            "Research failed: API call failed: Perplexity API error <status>"
      [] OTHER -> "Research failed"

\* a batch one item larger than the maximum passes
TooMany_OffByOne(items) == Len(items) > MAX_RESEARCH_BATCH_SIZE + 1

\* the batch size test of research_products
TooMany(items) == Len(items) > MAX_RESEARCH_BATCH_SIZE

\* research_products
research_products(items, resp) ==
    IF Len(items) = 0 THEN Raised
    ELSE IF TooMany(items)
    THEN Returned(<< [NewResult EXCEPT !.status = "too_many_items",
                                       !.error_message = "too_many_items"] >>)
    ELSE IF resp.kind = "raise"
    THEN Returned(ErrorResults(items, research_failed(resp.status)))
    ELSE Returned(parse_batch_response(resp, items))

\* the response arrays tried: GoodElem everywhere but, at most, at one place
ArraySamples ==
    { [i \in 1..k |-> IF i = at THEN odd ELSE GoodElem] :
        k \in 0..MaxElems, at \in 0..MaxElems, odd \in ElemSamples }

Responses ==
    { Resp("raise", cause, 0, <<>>, 0) : cause \in Causes }
    \cup
    { Resp("no_content", "none", 0, <<>>, 0),
      Resp("not_json", "none", 0, <<>>, 0),
      Resp("error_object", "too_many_items", 1, <<>>, 0),
      Resp("error_object", "insufficient_sources", 1, <<>>, 0),
      Resp("error_object", "error", 1, <<>>, 0),
      Resp("object", "none", 0, <<>>, 0),
      Resp("object", "none", 1, <<>>, 0),
      Resp("string", "none", 0, <<>>, 0),
      Resp("string", "none", 1, <<>>, 0),
      Resp("scalar", "none", 0, <<>>, 0) }
    \cup { Resp("array", "none", 0, es, cs) :
             es \in ArraySamples, cs \in {0, MIN_SOURCES_REQUIRED} }

NoResponse == Resp("raise", "none", 0, <<>>, 0)

Impls == {"coordinator", "client"}

\* no research call is looked at
IdleResearch ==
    /\ r_impl = "coordinator"
    /\ r_items = <<>>
    /\ r_resp = NoResponse
    /\ r_out = Returned(<<>>)
    /\ r_calls = 0
    /\ r_pc = "idle"

InitResearch ==
    /\ r_impl \in Impls
    /\ r_items \in { Batch(n) : n \in 0..MaxItems }
    /\ r_resp \in Responses
    /\ r_out = Returned(<<>>)
    /\ r_calls = 0
    /\ r_pc = "ready"

----------------------------------------------------------------------------
(* The research client the services call: PerplexityResearchClient          *)
(* (app/infra/llm/perplexity_research.py). It differs from the coordinator  *)
(* in what it catches.                                                      *)

\* _parse_single_result: no dict, or a ProductReviews that raises
client_element_raises(e) == e.kind = "other" \/ ~ReviewsValid(e)

\* _parse_batch_response, the citations: they replace a missing or empty sources
client_add_citations(results, citations) ==
    [i \in 1..Len(results) |->
        IF citations > 0 /\ results[i].sources <= 0
        THEN [results[i] EXCEPT !.sources = Min(citations, MIN_SOURCES_REQUIRED)]
        ELSE results[i]]

\* _parse_batch_response
client_parse_batch_response(resp, items) ==
    CASE resp.kind \in {"no_content", "scalar"} -> ErrorResults(items, "exception")
      [] resp.kind = "not_json" -> ErrorResults(items, "parse_failed")
      [] resp.kind = "error_object" ->
            IF resp.status = "too_many_items"
            THEN << [NewResult EXCEPT !.status = "too_many_items",
                                      !.error_message = "too_many_items"] >>
            ELSE ErrorResults(items, "exception")
      [] resp.kind \in {"object", "string"} ->
            IF resp.size = 0 \/ Len(items) = 0 THEN <<>>
            ELSE ErrorResults(items, "exception")
      [] resp.kind = "array" ->
            IF \E i \in 1..Parsed(resp.elems, items) :
                  client_element_raises(resp.elems[i])
            THEN ErrorResults(items, "exception")
            ELSE client_add_citations(
                    [i \in 1..Parsed(resp.elems, items) |->
                        parse_single_result(resp.elems[i], items[i], i)],
                    resp.citations)

\* the except clauses of research_products: acall() raises
\* ExternalServiceException when the breaker is OPEN, and so does
\* _call_perplexity_api_internal on a timeout, a network error and every
\* non-200 answer; the clause that catches it gives one fixed text
client_research_failed(cause) ==
    IF cause \in Causes
    THEN "Perplexity API is temporarily unavailable"
    ELSE "none"

\* research_products: it never raises
client_research_products(items, resp) ==
    IF TooMany(items)
    THEN << [NewResult EXCEPT !.status = "too_many_items",
                              !.error_message = "too_many_items"] >>
    ELSE IF resp.kind = "raise"
    THEN ErrorResults(items, client_research_failed(resp.status))
    ELSE client_parse_batch_response(resp, items)

\* the outbound calls research_products(items) makes: none for a batch it
\* refuses (the coordinator refuses the empty batch too), one otherwise
api_calls(impl, items) ==
    IF TooMany(items) \/ (impl = "coordinator" /\ Len(items) = 0) THEN 0 ELSE 1

\* one call of research_products(items)
ResearchProducts ==
    /\ r_pc = "ready"
    /\ r_out' = IF r_impl = "coordinator"
                THEN research_products(r_items, r_resp)
                ELSE Returned(client_research_products(r_items, r_resp))
    /\ r_calls' = r_calls + api_calls(r_impl, r_items)
    /\ r_pc' = "done"
    /\ UNCHANGED <<r_impl, r_items, r_resp>>
    /\ UNCHANGED notResearch

NextResearch == ResearchProducts

----------------------------------------------------------------------------
(* Research jobs: ProductResearchJob (app/domain/product_entities.py), kept *)
(* by ProductResearchService, which the API calls, or by                    *)
(* ProductResearchJobManager under ProductResearchOrchestrator with         *)
(* ProductResearchExecutor and ProductResearchResultProcessor.              *)
(*                                                                          *)
(* Jobs do not touch one another: each background task holds its own job.   *)
(* One stored job is followed, and one id under which nothing is stored.    *)
(* A timestamp is a tick of utcnow, 0 standing for None; updated_at, which   *)
(* nothing reads, is left out.                                              *)

JobIds == {"j1"}
UnknownIds == {"j0"}

\* a job holds up to MaxJobItems items
MaxJobItems == 2

Paths == {"service", "orchestrator"}

\* the batches a job is made for: the API asks for one item at least
ItemLists ==
    UNION { { [i \in 1..n |-> Item(i, p[i])] : p \in [1..n -> BOOLEAN] } :
              n \in 1..MaxJobItems }

\* ProductResearchJob() after add_items(items), with the metadata set at creation
NewJob(items, path, preview, t) ==
    [items |-> items, results |-> <<>>, status |-> "pending",
     total_items |-> Len(items), successful_items |-> 0, failed_items |-> 0,
     created_at |-> t, started_at |-> 0, completed_at |-> 0,
     cancelled |-> FALSE, error |-> FALSE, error_message |-> "none",
     coupang_preview |-> preview, path |-> path]

\* add_result with an if in place of the elif, its list naming SUCCESS too
add_result_BothCounters(job, r) ==
    [job EXCEPT !.results = Append(@, r),
                !.successful_items = IF r.status = "success" THEN @ + 1 ELSE @,
                !.failed_items = IF r.status \in {"success", "error",
                                                  "insufficient_sources"}
                                 THEN @ + 1 ELSE @]

\* ProductResearchJob.add_result
add_result(job, r) ==
    [job EXCEPT !.results = Append(@, r),
                !.successful_items = IF r.status = "success" THEN @ + 1 ELSE @,
                !.failed_items = IF r.status \in {"error", "insufficient_sources"}
                                 THEN @ + 1 ELSE @]

\* for result in results: job.add_result(result)
RECURSIVE AddResults(_, _)
AddResults(job, rs) ==
    IF rs = <<>> THEN job ELSE AddResults(add_result(job, Head(rs)), Tail(rs))

\* ProductResearchJob.start
start(job, t) == [job EXCEPT !.status = "processing", !.started_at = t]

\* complete without the assignment of the status
complete_KeepsStatus(job, t) == [job EXCEPT !.completed_at = t]

\* ProductResearchJob.complete
complete(job, t) == [job EXCEPT !.status = "success", !.completed_at = t]

\* ProductResearchJob.fail
fail(job, t) == [job EXCEPT !.status = "error", !.completed_at = t, !.error = TRUE]

\* the members of the enum ResearchStatus
ResearchStatus ==
    {"pending", "processing", "success", "error", "insufficient_sources",
     "too_many_items"}

\* the preview result of an item that carries partner data
PreviewOf(item, status) ==
    [NewResult EXCEPT !.name = item.name, !.status = status, !.sources = 1,
                      !.preview = TRUE]

\* _extract_coupang_info: the preview result of item, or none. The result
\* processor's names ResearchStatus.COUPANG_PREVIEW, which raises AttributeError
\* unless the enum has the member, and gives None on any exception.
extract_coupang_info(item, path) ==
    IF ~item.partner THEN <<>>
    ELSE IF path = "service" THEN << PreviewOf(item, "success") >>
    ELSE IF "coupang_preview" \in ResearchStatus
    THEN << PreviewOf(item, "coupang_preview") >>
    ELSE <<>>

\* extract_coupang_preview_results, and the loop of
\* ProductResearchService.create_research_job_with_coupang_preview
RECURSIVE extract_coupang_preview_results(_, _)
extract_coupang_preview_results(items, path) ==
    IF items = <<>> THEN <<>>
    ELSE extract_coupang_info(Head(items), path)
            \o extract_coupang_preview_results(Tail(items), path)

\* _merge_research_into_preview: sources.extend(None) raises, the review fields
\* being overwritten by then
MergeRaises(r) == r.sources < 0

merge_research_into_preview(p, r) ==
    IF MergeRaises(r)
    THEN [p EXCEPT !.rating_avg = r.rating_avg, !.review_count = r.review_count]
    ELSE [p EXCEPT !.rating_avg = r.rating_avg,
                   !.review_count = r.review_count,
                   !.sources = @ + r.sources,
                   !.status = r.status,
                   !.data = r.data,
                   !.error_message = IF r.error_message # "none"
                                     THEN r.error_message ELSE @,
                   !.missing_fields = IF r.missing_fields THEN TRUE ELSE @]

\* merge_research_results_into_previews from the i-th research result on:
\* by index, onto the result the job holds there, or as a new result
RECURSIVE merge_research_results_into_previews(_, _, _)
merge_research_results_into_previews(job, rs, i) ==
    IF i > Len(rs) THEN [job |-> job, raised |-> FALSE]
    ELSE IF i <= Len(job.results)
    THEN LET merged == [job EXCEPT !.results[i] =
                            merge_research_into_preview(@, rs[i])]
         IN  IF MergeRaises(rs[i])
             THEN [job |-> merged, raised |-> TRUE]
             ELSE merge_research_results_into_previews(merged, rs, i + 1)
    ELSE merge_research_results_into_previews(add_result(job, rs[i]), rs, i + 1)

\* the background task from the return of research_products() to its end:
\* write the results, complete the job; an exception fails it
Finish(job, rs, t) ==
    IF ~job.coupang_preview
    THEN complete(AddResults(job, rs), t)
    ELSE LET m == merge_research_results_into_previews(job, rs, 1)
         IN  IF m.raised THEN fail(m.job, t) ELSE complete(m.job, t)

\* what the outbound call of a job's batch may give: an error, a refusal, or an
\* array of as many elements as items or of one fewer
JobResponses(items) ==
    { Resp("raise", "timeout", 0, <<>>, 0),
      Resp("error_object", "too_many_items", 1, <<>>, 0) }
    \cup { Resp("array", "none", 0, [i \in 1..k |-> e], 0) :
             k \in {Len(items) - 1, Len(items)},
             e \in { GoodElem,
                     Elem("dict", "echo", "insufficient_sources", 0, 0, 0),
                     Elem("dict", "echo", "none", 45, 50, -1) } }

NoRead == [id |-> "none", include_failed |-> TRUE, gave |-> "none", results |-> <<>>]

\* no job is looked at
IdleJobs ==
    /\ jobs = << >>
    /\ task = [j \in JobIds |-> "none"]
    /\ utcnow = 1
    /\ cancel_ret = [id |-> "none", found |-> "none", value |-> "none"]
    /\ results_ret = NoRead

InitJobs == IdleJobs

\* create_research_job (preview = FALSE) and
\* create_research_job_with_coupang_preview (preview = TRUE), of the service or
\* of the orchestrator: the job is stored and its background task is created
CreateJob(j, items, path, preview) ==
    /\ j \notin DOMAIN jobs
    /\ LET job == NewJob(items, path, preview, utcnow)
       IN  jobs' = jobs @@ (j :> IF preview
                                 THEN AddResults(job,
                                         extract_coupang_preview_results(items, path))
                                 ELSE job)
    /\ task' = [task EXCEPT ![j] = "scheduled"]
    /\ UNCHANGED <<utcnow, cancel_ret, results_ret>>
    /\ UNCHANGED notJobs

\* the first lines of the background task
Started(job, t) ==
    IF job.coupang_preview /\ job.path = "orchestrator"
    THEN [job EXCEPT !.status = "processing",
                     !.started_at = IF @ # 0 THEN @ ELSE job.created_at]
    ELSE start(job, t)

\* the background task runs up to the outbound call of research_products();
\* a batch over the maximum makes no call and the task runs to its end
TaskStart(j) ==
    /\ j \in DOMAIN jobs
    /\ task[j] = "scheduled"
    /\ LET job == Started(jobs[j], utcnow)
       IN  IF Len(job.items) > MAX_RESEARCH_BATCH_SIZE
           THEN /\ jobs' = [jobs EXCEPT ![j] =
                       Finish(job, client_research_products(job.items, NoResponse),
                              utcnow)]
                /\ task' = [task EXCEPT ![j] = "done"]
           ELSE /\ jobs' = [jobs EXCEPT ![j] = job]
                /\ task' = [task EXCEPT ![j] = "in_flight"]
    /\ UNCHANGED <<utcnow, cancel_ret, results_ret>>
    /\ UNCHANGED notJobs

\* the outbound call returns and the background task runs to its end
TaskResume(j) ==
    /\ j \in DOMAIN jobs
    /\ task[j] = "in_flight"
    /\ \E resp \in JobResponses(jobs[j].items) :
          jobs' = [jobs EXCEPT ![j] =
                     Finish(@, client_research_products(@.items, resp), utcnow)]
    /\ task' = [task EXCEPT ![j] = "done"]
    /\ UNCHANGED <<utcnow, cancel_ret, results_ret>>
    /\ UNCHANGED notJobs

\* the test of cancel_job on a stored job
CancelAllowed_AnyStatus(job) == TRUE

CancelAllowed(job) == job.status = "processing"

\* self._jobs.get(job_id), by the status of what is found
Found(id) == IF id \in DOMAIN jobs THEN jobs[id].status ELSE "missing"

\* cancel_job(id), of the service or of the job manager
CancelJob(id) ==
    /\ IF id \in DOMAIN jobs /\ CancelAllowed(jobs[id])
       THEN /\ jobs' = [jobs EXCEPT ![id] =
                   [@ EXCEPT !.status = "error",
                             !.cancelled = TRUE,
                             !.completed_at = utcnow,
                             !.error_message = IF jobs[id].path = "orchestrator"
                                               THEN "cancelled" ELSE @]]
            /\ cancel_ret' = [id |-> id, found |-> Found(id), value |-> "true"]
       ELSE /\ cancel_ret' = [id |-> id, found |-> Found(id), value |-> "false"]
            /\ UNCHANGED jobs
    /\ UNCHANGED <<task, utcnow, results_ret>>
    /\ UNCHANGED notJobs

\* [r for r in job.results if r.status == ResearchStatus.SUCCESS]
successful_results(results) == SelectSeq(results, LAMBDA r : r.status = "success")

\* get_job_results(id, include_failed). The service filters the results of
\* the stored job itself. The orchestrator's job manager fills a new job,
\* reading job.error_message, an attribute only cancel_job and
\* update_job_status give a job: without it the read raises AttributeError.
GetJobResults(id, include_failed) ==
    /\ IF id \notin DOMAIN jobs
       THEN /\ results_ret' = [id |-> id, include_failed |-> include_failed,
                               gave |-> "None", results |-> <<>>]
            /\ UNCHANGED jobs
       ELSE IF include_failed
       THEN /\ results_ret' = [id |-> id, include_failed |-> include_failed,
                               gave |-> "job", results |-> jobs[id].results]
            /\ UNCHANGED jobs
       ELSE IF jobs[id].path = "service"
       THEN /\ jobs' = [jobs EXCEPT ![id].results = successful_results(@)]
            /\ results_ret' = [id |-> id, include_failed |-> include_failed,
                               gave |-> "job", results |-> jobs'[id].results]
       ELSE /\ results_ret' =
                 IF jobs[id].error_message = "none"
                 THEN [id |-> id, include_failed |-> include_failed,
                       gave |-> "AttributeError", results |-> <<>>]
                 ELSE [id |-> id, include_failed |-> include_failed,
                       gave |-> "job",
                       results |-> successful_results(jobs[id].results)]
            /\ UNCHANGED jobs
    /\ UNCHANGED <<task, utcnow, cancel_ret>>
    /\ UNCHANGED notJobs

\* time passes
AdvanceUtc ==
    /\ utcnow <= MaxTicks
    /\ utcnow' = utcnow + 1
    /\ UNCHANGED <<jobs, task, cancel_ret, results_ret>>
    /\ UNCHANGED notJobs

NextJobs ==
    \/ \E j \in JobIds, items \in ItemLists, path \in Paths, preview \in BOOLEAN :
          CreateJob(j, items, path, preview)
    \/ \E j \in JobIds : TaskStart(j)
    \/ \E j \in JobIds : TaskResume(j)
    \/ \E id \in JobIds \cup UnknownIds : CancelJob(id)
    \/ \E id \in JobIds \cup UnknownIds, include_failed \in BOOLEAN :
          GetJobResults(id, include_failed)
    \/ AdvanceUtc

----------------------------------------------------------------------------
(* Claims about the research jobs *)

\* the statuses a job ends in: complete() gives SUCCESS, fail() and cancel_job()
\* give ERROR, a cancelled job having metadata["cancelled"] set
TerminalStatus(job) == job.status \in {"success", "error"}
IsCancelled(job) == job.status = "error" /\ job.cancelled

\* C5: when the research call of a job that was cancelled while the call was in
\* flight returns, the results are not written to the job and the job's status
\* stays the cancelled one.
C5_CancelledJobKeptAsIs ==
    [][\A j \in JobIds :
          (/\ j \in DOMAIN jobs
           /\ task[j] = "in_flight"
           /\ IsCancelled(jobs[j])
           /\ TaskResume(j))
          => /\ jobs'[j].results = jobs[j].results
             /\ jobs'[j].status = jobs[j].status]_vars

\* C6: once the status of a job is terminal, no step changes it again.
C6_TerminalStatusStays ==
    [][\A j \in JobIds :
          (j \in DOMAIN jobs /\ TerminalStatus(jobs[j]))
          => jobs'[j].status = jobs[j].status]_vars

\* C7: cancel_job on a stored job that is PENDING or PROCESSING returns true,
\* puts the job in the cancelled terminal state and sets its completion timestamp.
C7_CancelPendingOrProcessing ==
    [][\A id \in JobIds :
          (/\ id \in DOMAIN jobs
           /\ jobs[id].status \in {"pending", "processing"}
           /\ CancelJob(id))
          => /\ cancel_ret'.value = "true"
             /\ IsCancelled(jobs'[id])
             /\ jobs'[id].completed_at = utcnow]_vars

\* C8: cancel_job on a job that is already terminal, or on an id under which
\* nothing is stored, returns false and leaves the stored jobs as they are.
C8_CancelTerminalOrMissing ==
    [][\A id \in JobIds \cup UnknownIds :
          (CancelJob(id) /\ (id \notin DOMAIN jobs \/ TerminalStatus(jobs[id])))
          => /\ cancel_ret'.value = "false"
             /\ jobs' = jobs]_vars

\* cancel_job was refused on a completed job that holds results
C8_Witness ==
    /\ cancel_ret.value = "false"
    /\ cancel_ret.found = "success"
    /\ cancel_ret.id \in DOMAIN jobs
    /\ jobs[cancel_ret.id].status = "success"
    /\ jobs[cancel_ret.id].results # <<>>

\* a list of results that follows a list of items place by place
Aligned(rs, items) ==
    /\ Len(rs) = Len(items)
    /\ \A i \in 1..Len(items) : rs[i].name = items[i].name

\* every result of the job describes the item at its place: it bears the item's
\* name and the research data, if any, of the item's place
Describes(job) ==
    /\ Aligned(job.results, job.items)
    /\ \A i \in 1..Len(job.items) : job.results[i].data \in {0, i}

\* C9: for a batch of 1..MAX_RESEARCH_BATCH_SIZE items and every outcome of the
\* API call, research_products returns as many results as items, the i-th
\* result belonging to the i-th item.
C9_OneResultPerItem ==
    (r_pc = "done" /\ Len(r_items) \in 1..MAX_RESEARCH_BATCH_SIZE)
    => /\ ~r_out.raised
       /\ Aligned(r_out.results, r_items)

\* C10: in preview-merge mode, when the merge of a full research list that
\* follows the items has completed, every result of the job describes the
\* item at its place, whichever items carry partner data.
C10_MergeFollowsItems ==
    [][\A j \in JobIds :
          (/\ j \in DOMAIN jobs
           /\ task[j] = "in_flight"
           /\ jobs[j].coupang_preview)
          => \A resp \in JobResponses(jobs[j].items) :
                LET rs == client_research_products(jobs[j].items, resp)
                IN  (/\ Aligned(rs, jobs[j].items)
                     /\ jobs'[j] = Finish(jobs[j], rs, utcnow)
                     /\ task'[j] = "done"
                     /\ jobs'[j].status = "success")
                    => Describes(jobs'[j])]_vars

\* the results of the job whose status is one of statuses
WithStatus(job, statuses) ==
    Cardinality({ i \in 1..Len(job.results) : job.results[i].status \in statuses })

\* the statuses add_result counts as failed
FailureStatuses == {"error", "insufficient_sources"}

\* C26: in every state of a job, in direct mode and in preview-merge mode,
\* successful_items + failed_items is at most total_items.
C26_CountersWithinTotal ==
    \A j \in DOMAIN jobs :
        jobs[j].successful_items + jobs[j].failed_items <= jobs[j].total_items

\* a preview-merge job of two items, one with and one without partner data,
\* is complete: one result was merged into the preview, one was added, and
\* the two counters add up to total_items
C26_Witness ==
    \E j \in DOMAIN jobs :
        /\ jobs[j].coupang_preview
        /\ jobs[j].path = "service"
        /\ task[j] = "done"
        /\ jobs[j].status = "success"
        /\ \E i \in 1..Len(jobs[j].results) : jobs[j].results[i].preview
        /\ \E i \in 1..Len(jobs[j].results) : ~jobs[j].results[i].preview
        /\ jobs[j].successful_items + jobs[j].failed_items = jobs[j].total_items
        /\ jobs[j].total_items = MaxJobItems

\* C27 (as claimed): once the research results were merged into the job's
\* previews, successful_items is the number of results with status SUCCESS
\* and failed_items the number of results with a failure status.
C27_CountersMatchResults ==
    \A j \in DOMAIN jobs :
        (jobs[j].coupang_preview /\ task[j] = "done" /\ jobs[j].status = "success")
        => /\ jobs[j].successful_items = WithStatus(jobs[j], {"success"})
           /\ jobs[j].failed_items = WithStatus(jobs[j], FailureStatuses)

\* C28 (as claimed): reading a job with include_failed = false leaves the
\* stored job as it was, and a read with include_failed = true returns every
\* result the stored job holds, after a filtered read as before it.
C28_FilteredReadKeepsJob ==
    [][\A id \in JobIds :
          /\ GetJobResults(id, FALSE) => jobs' = jobs
          /\ (GetJobResults(id, TRUE) /\ id \in DOMAIN jobs)
               => results_ret'.results = jobs[id].results]_vars

\* the items of a batch that carry partner-marketplace identifiers
IsPartnerItem(item) == item.partner

\* C30 (as claimed): in preview mode, when job creation returns, the job holds
\* exactly one preview result for each submitted item that carries partner
\* identifiers, in the order of the items and none of them taken from a
\* research call, and nothing of the research call has moved.
C30_OnePreviewPerPartnerItem ==
    [][\A j \in JobIds, items \in ItemLists, path \in Paths :
          CreateJob(j, items, path, TRUE)
          => LET with == SelectSeq(items, IsPartnerItem)
                 rs == jobs'[j].results
             IN  /\ Len(rs) = Len(with)
                 /\ \A i \in 1..Len(rs) :
                       /\ rs[i].preview
                       /\ rs[i].name = with[i].name
                       /\ rs[i].data = 0
                 /\ UNCHANGED researchVars]_vars

\* asyncio runs a task that was created, and resumes a task whose awaited
\* call returned or raised
FairJobs == \A j \in JobIds : WF_vars(TaskStart(j)) /\ WF_vars(TaskResume(j))

\* a job made in direct mode
IsDirect(j) == j \in DOMAIN jobs /\ ~jobs[j].coupang_preview

\* C31: in direct mode, a job whose background task was created leaves PENDING
\* and a job whose execution started leaves PROCESSING: the return of the
\* research call completes it (an exception fails it), and it is in a final
\* status once the task is over.
C31_DirectJobEnds ==
    /\ \A j \in JobIds :
          (IsDirect(j) /\ task[j] \in {"scheduled", "in_flight"})
          ~> (IsDirect(j) /\ task[j] = "done" /\ TerminalStatus(jobs[j]))
    /\ [][\A j \in JobIds :
             (IsDirect(j) /\ TaskResume(j)) => jobs'[j].status = "success"]_vars
    /\ [](\A j \in JobIds :
             (IsDirect(j) /\ task[j] = "done") => TerminalStatus(jobs[j]))

\* a direct job was started, its research call returned, and it is complete
C31_Witness ==
    \E j \in JobIds :
        /\ IsDirect(j)
        /\ task[j] = "done"
        /\ jobs[j].status = "success"
        /\ jobs[j].started_at # 0
        /\ Len(jobs[j].results) = Len(jobs[j].items)

----------------------------------------------------------------------------
(* Claims about the research call *)

\* what a result must hold to count as researched
HasReviewsAndSources(r) ==
    r.rating_avg > 0 /\ r.review_count > 0 /\ r.sources >= MIN_SOURCES_REQUIRED

\* C12 (as claimed): every result the parser returns with status SUCCESS has a
\* rating > 0, a review count > 0 and MIN_SOURCES_REQUIRED sources at least;
\* and every result parsed from a response element that misses one of these
\* has status INSUFFICIENT_SOURCES with its missing fields named.
C12_SuccessNeedsReviewsAndSources ==
    (r_pc = "done" /\ r_impl = "coordinator")
    => \A i \in 1..Len(r_out.results) :
          LET r == r_out.results[i]
          IN  /\ r.status = "success" => HasReviewsAndSources(r)
              /\ (r.data # 0 /\ ~HasReviewsAndSources(r))
                    => (r.status = "insufficient_sources" /\ r.missing_fields)

\* C33 (as claimed): parse_batch_response never raises; content that is not
\* JSON gives one ERROR result per item; and in an array, with no citations to
\* add, an element that cannot be parsed (it is no object) gives an ERROR
\* result for its item only, every other element keeping the outcome
\* _parse_single_result gives it.
C33_BadElementFailsAlone ==
    (/\ r_pc = "done"
     /\ r_impl = "coordinator"
     /\ Len(r_items) \in 1..MAX_RESEARCH_BATCH_SIZE
     /\ r_resp.kind # "raise")
    => /\ ~r_out.raised
       /\ r_resp.kind = "not_json"
            => /\ Len(r_out.results) = Len(r_items)
               /\ \A i \in 1..Len(r_items) :
                     /\ r_out.results[i].status = "error"
                     /\ r_out.results[i].name = r_items[i].name
       /\ (r_resp.kind = "array" /\ r_resp.citations = 0)
            => /\ Len(r_out.results) >= Parsed(r_resp.elems, r_items)
               /\ \A i \in 1..Parsed(r_resp.elems, r_items) :
                     r_out.results[i].status =
                        IF r_resp.elems[i].kind = "other" THEN "error"
                        ELSE parse_single_result(r_resp.elems[i], r_items[i], i).status

\* the element of the example: a rating of 90 on a 100-point scale (ratings are
\* counted in tenths: 900), 50 reviews, 3 sources
HundredPointElem == Elem("dict", "echo", "none", 900, 50, 3)

\* C34 (as claimed): a response element with rating_avg = 90 on a 100-point
\* scale, review_count = 50 and 3 sources is parsed into a result whose rating
\* is 4.5 (90 / 20; 45 tenths) and whose status is SUCCESS.
C34_HundredPointRatingNormalised ==
    (/\ r_pc = "done"
     /\ Len(r_items) \in 1..MAX_RESEARCH_BATCH_SIZE
     /\ r_resp.kind = "array")
    => \A i \in 1..Parsed(r_resp.elems, r_items) :
          r_resp.elems[i] = HundredPointElem
          => /\ r_out.results[i].rating_avg = 45
             /\ r_out.results[i].review_count = 50
             /\ r_out.results[i].status = "success"

\* C13: research_products called with more than MAX_RESEARCH_BATCH_SIZE items,
\* by the coordinator or by the client and whatever the API would answer,
\* returns exactly one result, of status TOO_MANY_ITEMS, and makes no outbound
\* call (nothing enters the circuit breaker, whose counters only a call moves).
C13_TooManyItemsNoCall ==
    (r_pc = "done" /\ Len(r_items) > MAX_RESEARCH_BATCH_SIZE)
    => /\ ~r_out.raised
       /\ Len(r_out.results) = 1
       /\ r_out.results[1].status = "too_many_items"
       /\ r_calls = 0
       /\ total_calls = 0

\* C13 witness: a batch of MAX_RESEARCH_BATCH_SIZE + 1 items was refused though
\* the API would have answered with an array.
C13_Witness ==
    /\ r_pc = "done"
    /\ Len(r_items) = MAX_RESEARCH_BATCH_SIZE + 1
    /\ r_resp.kind = "array"
    /\ Len(r_resp.elems) = Len(r_items)
    /\ r_out.results = << [NewResult EXCEPT !.status = "too_many_items",
                                            !.error_message = "too_many_items"] >>
    /\ r_calls = 0

\* the error message research_products gives when the call fails by cause
failure_message(impl, cause) ==
    IF impl = "coordinator" THEN research_failed(cause)
    ELSE client_research_failed(cause)

\* a message carries the cause when no other cause gives the same message
CarriesCause(impl, msg, cause) ==
    \A c \in Causes \ {cause} : failure_message(impl, c) # msg

\* C14 (as claimed): when the one outbound call of a batch of
\* 1..MAX_RESEARCH_BATCH_SIZE items fails (transport error, timeout, non-200
\* answer, open circuit), research_products does not raise and returns one
\* ERROR result per item, each carrying the cause of the failure.
C14_FailureGivesErrorPerItem ==
    (/\ r_pc = "done"
     /\ Len(r_items) \in 1..MAX_RESEARCH_BATCH_SIZE
     /\ r_resp.kind = "raise")
    => /\ ~r_out.raised
       /\ Len(r_out.results) = Len(r_items)
       /\ \A i \in 1..Len(r_items) :
             /\ r_out.results[i].name = r_items[i].name
             /\ r_out.results[i].status = "error"
             /\ CarriesCause(r_impl, r_out.results[i].error_message, r_resp.status)

----------------------------------------------------------------------------
(* The merge of a research result into a preview result, on its own:        *)
(* _merge_research_into_preview of ProductResearchService and of            *)
(* ProductResearchResultProcessor, which are the same code.                 *)

\* _merge_research_into_preview is called at most
MaxMerges == 3

\* the preview results a job is created with
PreviewResults ==
    { PreviewOf(Item(i, TRUE), "success") : i \in 1..MaxJobItems }

\* the results research_products() gives for a job's batch
ResearchResults ==
    UNION { { client_research_products(Batch(n), resp)[i] :
                i \in 1..Len(client_research_products(Batch(n), resp)) } :
            n \in 1..MaxJobItems, resp \in Responses }

\* no merge is looked at
IdleMerge ==
    /\ m_preview = NewResult
    /\ m_research = NewResult
    /\ m_merges = 0
    /\ m_once = NewResult

InitMerge ==
    /\ m_preview \in PreviewResults
    /\ m_research \in ResearchResults
    /\ m_merges = 0
    /\ m_once = NewResult

\* one call of _merge_research_into_preview(preview_result, research_result);
\* when it raises, preview_result keeps what was written before
Merge ==
    /\ m_merges < MaxMerges
    /\ m_preview' = merge_research_into_preview(m_preview, m_research)
    /\ m_merges' = m_merges + 1
    /\ m_once' = IF m_merges = 0 THEN m_preview' ELSE m_once
    /\ UNCHANGED m_research
    /\ UNCHANGED notMerge

NextMerge == Merge

\* C11 (as claimed): after the same research result was merged into the same
\* preview result twice, the preview result is in the state the first merge
\* left it in.
C11_MergeTwiceIsMergeOnce ==
    m_merges >= 2 => m_preview = m_once

----------------------------------------------------------------------------
(* The circuit breaker registry: CircuitBreakerRegistry.get_breaker() and   *)
(* remove_breaker(), called from several threads                            *)

\* CircuitBreaker objects constructed, at most
MaxBreakers == 3

Threads == {"t1", "t2"}
ServiceNames == {"perplexity_api", "coupang_api"}
\* config=None stands for the default CircuitBreakerConfig()
Configs == {"default", "custom"}

Free == "free"
NoBreaker == [id |-> 0, config |-> "none"]
KeyError == [id |-> -1, config |-> "none"]

\* CircuitBreaker(service_name, config): a new object
CircuitBreaker(n, config) == [id |-> n, config |-> config]

NoCall == [pc |-> "idle", name |-> "none", config |-> "none", got |-> NoBreaker]

IdleRegistry ==
    /\ breakers = [n \in ServiceNames |-> NoBreaker]
    /\ lock = Free
    /\ made = 0
    /\ callers = [t \in Threads |-> NoCall]
    /\ given = [n \in ServiceNames |-> {}]

InitRegistry == IdleRegistry

\* no lock: a thread enters whoever is inside
CanEnter_NoLock(t) == TRUE

\* with cls._lock: a thread enters when no thread holds the lock
CanEnter(t) == lock = Free

\* get_breaker(service_name, config): thread t takes the lock
GetBreakerEnter(t, name, config) ==
    /\ callers[t].pc = "idle"
    /\ made < MaxBreakers
    /\ CanEnter(t)
    /\ lock' = t
    /\ callers' = [callers EXCEPT ![t] =
                     [pc |-> "check", name |-> name, config |-> config,
                      got |-> NoBreaker]]
    /\ UNCHANGED <<breakers, made, given>>
    /\ UNCHANGED notRegistry

\* if service_name not in cls._breakers
GetBreakerCheck(t) ==
    /\ callers[t].pc = "check"
    /\ callers' = [callers EXCEPT ![t].pc =
                     IF breakers[callers[t].name] = NoBreaker
                     THEN "create" ELSE "return"]
    /\ UNCHANGED <<breakers, lock, made, given>>
    /\ UNCHANGED notRegistry

\* cls._breakers[service_name] = CircuitBreaker(service_name, config)
GetBreakerCreate(t) ==
    /\ callers[t].pc = "create"
    /\ made' = made + 1
    /\ breakers' = [breakers EXCEPT ![callers[t].name] =
                      CircuitBreaker(made', callers[t].config)]
    /\ callers' = [callers EXCEPT ![t].pc = "return"]
    /\ UNCHANGED <<lock, given>>
    /\ UNCHANGED notRegistry

\* return cls._breakers[service_name], leaving the with block
GetBreakerReturn(t) ==
    /\ callers[t].pc = "return"
    /\ LET name == callers[t].name
           value == IF breakers[name] = NoBreaker THEN KeyError ELSE breakers[name]
       IN  /\ callers' = [callers EXCEPT ![t].pc = "idle", ![t].got = value]
           /\ given' = [given EXCEPT ![name] = @ \cup {value}]
    /\ lock' = Free
    /\ UNCHANGED <<breakers, made>>
    /\ UNCHANGED notRegistry

\* remove_breaker(service_name), all of it under the lock
RemoveBreaker(t, name) ==
    /\ callers[t].pc = "idle"
    /\ CanEnter(t)
    /\ breakers[name] # NoBreaker
    /\ breakers' = [breakers EXCEPT ![name] = NoBreaker]
    /\ given' = [given EXCEPT ![name] = {}]
    /\ UNCHANGED <<lock, made, callers>>
    /\ UNCHANGED notRegistry

NextRegistry ==
    \/ \E t \in Threads, name \in ServiceNames, config \in Configs :
         GetBreakerEnter(t, name, config)
    \/ \E t \in Threads : GetBreakerCheck(t)
    \/ \E t \in Threads : GetBreakerCreate(t)
    \/ \E t \in Threads : GetBreakerReturn(t)
    \/ \E t \in Threads, name \in ServiceNames : RemoveBreaker(t, name)

\* C21: for one service name, every get_breaker() call made while the name
\* stays registered, concurrent calls and calls passing another config
\* included, returns the same CircuitBreaker object: at most one object is
\* handed out per name until the name is removed.
C21_OneBreakerPerName ==
    \A name \in ServiceNames :
        /\ Cardinality(given[name]) <= 1
        /\ KeyError \notin given[name]
        /\ given[name] # {} => given[name] = {breakers[name]}

\* a get_breaker() that passed one config returned the object another call
\* had constructed with the other config
C21_Witness ==
    \E t \in Threads :
        /\ callers[t].pc = "idle"
        /\ callers[t].got # NoBreaker
        /\ callers[t].got.config # callers[t].config
        /\ callers[t].got \in given[callers[t].name]

----------------------------------------------------------------------------
(* The WebSocket endpoint /ws/research/{job_id}: websocket_research_updates *)
(* up to the registration of the connection, and ConnectionManager          *)

\* WebSocket objects the server is handed, at most
MaxSockets == 6
\* handlers suspended between their connection count and their registration, at most
MaxPending == 2

\* if current_connections >= 5
MAX_CONNECTIONS_PER_IP == 5
\* the close codes of the endpoint
CLOSE_INVALID_ID == 4000
CLOSE_JOB_NOT_FOUND == 4004
CLOSE_TOO_MANY == 4008
CLOSE_SERVER_ERROR == 4500
NoCode == 0

Hosts == {"10.0.0.1", "10.0.0.2"}
NotUuid == "not-a-uuid"
\* the job_id path parameter: the id of a stored job, of no job, and a
\* string UUID() does not parse
PathJobIds == JobIds \cup UnknownIds \cup {NotUuid}

\* UUID(job_id) does not raise ValueError
IsUuid(job_id) == job_id \in JobIds \cup UnknownIds

\* what Depends() hands the endpoint as research_service: the
\* ProductResearchService of get_product_research_service, which has no
\* get_job_by_id, or an object that has one (ResearchJobManager)
Services == {"ProductResearchService", "ResearchJobManager"}

\* await research_service.get_job_by_id(job_id)
get_job_by_id(service, job_id) ==
    IF service = "ProductResearchService" THEN "raises"
    ELSE IF job_id \in JobIds THEN "job" ELSE "none"

\* a WebSocket object and its client.host
WebSocket(n, host) == [id |-> n, host |-> host]

\* lines 42-46: the connections registered under any job whose client.host
\* is client_ip
current_connections(client_ip) ==
    Cardinality({ <<j, i>> \in JobIds \X (1..MaxSockets) :
                    /\ i <= Len(job_connections[j])
                    /\ job_connections[j][i].host = client_ip })

NoHandshake ==
    [job_id |-> "none", at_limit |-> FALSE, code |-> NoCode, looked_up |-> FALSE,
     connected |-> FALSE]

\* what the handler of one connection attempt came to; at_limit: its
\* current_connections was 5 or more
Handshake(h, code, looked_up, connected) ==
    [job_id |-> h.job_id, at_limit |-> h.at_limit, code |-> code,
     looked_up |-> looked_up, connected |-> connected]

IdleWs ==
    /\ job_connections = [j \in JobIds |-> <<>>]
    /\ handlers = {}
    /\ ws_made = 0
    /\ handshake = NoHandshake

InitWs == IdleWs

\* the job id is never validated
RejectInvalid_Never(job_id) == FALSE

\* lines 53-57: UUID(job_id) raises ValueError
RejectInvalid(job_id) == ~IsUuid(job_id)

\* a client at host opens /ws/research/{job_id}: the handler runs to its
\* first suspension, which is a close() or the job lookup
WsOpen(host, job_id) ==
    /\ ws_made < MaxSockets
    /\ Cardinality(handlers) < MaxPending
    /\ ws_made' = ws_made + 1
    /\ LET h == [ws |-> WebSocket(ws_made', host), job_id |-> job_id,
                 at_limit |-> current_connections(host) >= MAX_CONNECTIONS_PER_IP,
                 pc |-> "lookup"]
       IN  IF h.at_limit
           THEN /\ handshake' = Handshake(h, CLOSE_TOO_MANY, FALSE, FALSE)
                /\ UNCHANGED handlers
           ELSE IF RejectInvalid(job_id)
           THEN /\ handshake' = Handshake(h, CLOSE_INVALID_ID, FALSE, FALSE)
                /\ UNCHANGED handlers
           ELSE /\ handlers' = handlers \cup {h}
                /\ UNCHANGED handshake
    /\ UNCHANGED job_connections
    /\ UNCHANGED notWs

\* lines 60-68: the job lookup returns or raises
WsLookup(n, service) ==
    \E h \in handlers :
    /\ h.ws.id = n
    /\ h.pc = "lookup"
    /\ LET job == get_job_by_id(service, h.job_id)
       IN  CASE job = "raises" ->
                  /\ handshake' = Handshake(h, CLOSE_SERVER_ERROR, TRUE, FALSE)
                  /\ handlers' = handlers \ {h}
             [] job = "none" ->
                  /\ handshake' = Handshake(h, CLOSE_JOB_NOT_FOUND, TRUE, FALSE)
                  /\ handlers' = handlers \ {h}
             [] OTHER ->
                  /\ handlers' = (handlers \ {h}) \cup {[h EXCEPT !.pc = "connect"]}
                  /\ UNCHANGED handshake
    /\ UNCHANGED <<job_connections, ws_made>>
    /\ UNCHANGED notWs

\* line 71, ConnectionManager.connect(websocket, job_id): accept() and,
\* unless it raised, the registration under the lock; the handler goes on
\* to its receive loop
WsConnect(n, accepted) ==
    \E h \in handlers :
    /\ h.ws.id = n
    /\ h.pc = "connect"
    /\ handlers' = handlers \ {h}
    /\ job_connections' =
         IF accepted
         THEN [job_connections EXCEPT ![h.job_id] = Append(@, h.ws)]
         ELSE job_connections
    /\ handshake' = Handshake(h, NoCode, TRUE, accepted)
    /\ UNCHANGED ws_made
    /\ UNCHANGED notWs

\* the receive loop of a registered connection ends and
\* ConnectionManager.disconnect(websocket) removes it
WsDisconnect(job_id, i) ==
    /\ i <= Len(job_connections[job_id])
    /\ job_connections' =
         [job_connections EXCEPT ![job_id] =
            SubSeq(@, 1, i - 1) \o SubSeq(@, i + 1, Len(@))]
    /\ UNCHANGED <<handlers, ws_made, handshake>>
    /\ UNCHANGED notWs

NextWs ==
    \/ \E host \in Hosts, job_id \in PathJobIds : WsOpen(host, job_id)
    \/ \E n \in 1..MaxSockets, service \in Services : WsLookup(n, service)
    \/ \E n \in 1..MaxSockets, accepted \in BOOLEAN : WsConnect(n, accepted)
    \/ \E job_id \in JobIds, i \in 1..MaxSockets : WsDisconnect(job_id, i)

----------------------------------------------------------------------------
(* The receive loop of one registered WebSocket connection                  *)
(* (websocket_research_updates, lines 93-145)                               *)

\* seconds the clock moves in one step, and steps it makes at most
WsTick == 900
MaxWsTicks == 5

\* if time.time() - last_ping > 1800
IDLE_SECONDS == 1800

\* what a client sends: the two control messages and anything else
ClientMessages == {"ping", "get_status", "other"}

\* the connection is registered and the loop is about to receive:
\* last_ping = time.time()
InitWsLoop ==
    /\ ws_now = 0
    /\ loop = [pc |-> "receive", last_ping |-> 0, inbox |-> "none",
               last_sent |-> 0, closed_by |-> "none"]

\* no connection is looked at
IdleWsLoop ==
    /\ ws_now = 0
    /\ loop = [pc |-> "none", last_ping |-> 0, inbox |-> "none",
               last_sent |-> 0, closed_by |-> "none"]

\* the client sends a text message
ClientSend(data) ==
    /\ loop.pc = "receive"
    /\ loop.inbox = "none"
    /\ loop' = [loop EXCEPT !.inbox = data, !.last_sent = ws_now]
    /\ UNCHANGED ws_now
    /\ UNCHANGED notWsLoop

\* line 120: the idle test
IsIdle(last_ping) == ws_now - last_ping > IDLE_SECONDS

\* lines 97-122: receive_text() returns the client's message, the message
\* is handled, and the idle test ends the loop or not; a get_status whose
\* job lookup raises goes to the except clause of line 127, past the idle test
ServerReceive(service) ==
    /\ loop.pc = "receive"
    /\ loop.inbox # "none"
    /\ LET data == loop.inbox
           last_ping == IF data = "ping" THEN ws_now ELSE loop.last_ping
           raised == data = "get_status" /\ get_job_by_id(service, "j1") = "raises"
       IN  loop' = IF ~raised /\ IsIdle(last_ping)
                   THEN [loop EXCEPT !.inbox = "none", !.last_ping = last_ping,
                                     !.pc = "closed", !.closed_by = "idle"]
                   ELSE [loop EXCEPT !.inbox = "none", !.last_ping = last_ping]
    /\ UNCHANGED ws_now
    /\ UNCHANGED notWsLoop

\* lines 124-126: the client closes the connection, receive_text() raises
\* WebSocketDisconnect
ClientDisconnect ==
    /\ loop.pc = "receive"
    /\ loop' = [loop EXCEPT !.pc = "closed", !.closed_by = "client", !.inbox = "none"]
    /\ UNCHANGED ws_now
    /\ UNCHANGED notWsLoop

\* time passes
WsClock ==
    /\ ws_now < MaxWsTicks * WsTick
    /\ ws_now' = ws_now + WsTick
    /\ UNCHANGED loop
    /\ UNCHANGED notWsLoop

NextWsLoop ==
    \/ \E data \in ClientMessages : ClientSend(data)
    \/ \E service \in Services : ServerReceive(service)
    \/ ClientDisconnect
    \/ WsClock

\* the server handles what it received and time passes
FairWsLoop ==
    /\ WF_vars(\E service \in Services : ServerReceive(service))
    /\ WF_vars(WsClock)

\* the client has sent nothing for longer than the idle window
ClientSilent == ws_now - loop.last_sent > IDLE_SECONDS

----------------------------------------------------------------------------
(* Job updates across processes: RedisPubSubManager (one per process), the  *)
(* "job_updates" channel of the broker, the Celery signal handlers           *)

\* publish_job_update() calls made, at most
MaxPublished == 2

\* the API server processes run main.lifespan; the Celery worker process
\* runs the signal handlers of websocket_tasks
Servers == {"server1", "server2"}
Workers == {"worker"}
Processes == Servers \cup Workers

\* JobUpdateMessage.message_type
Kinds == {"status", "progress", "complete", "error"}
PubJobIds == JobIds \cup UnknownIds

\* _forward_to_websocket: the WebSocketMessage type sent for a message_type
ws_type(message_type) ==
    CASE message_type = "status" -> "job_status"
      [] message_type = "progress" -> "job_progress"
      [] message_type = "complete" -> "job_complete"
      [] message_type = "error" -> "job_error"
      [] OTHER -> "none"

\* a process after import: pubsub_manager = RedisPubSubManager()
NewProcess(subscribed) ==
    [redis_client |-> "None", is_listening |-> FALSE, inbox |-> <<>>,
     subscribed |-> subscribed, sent |-> {}]

IdlePubSub ==
    /\ procs = [p \in Processes |-> NewProcess({})]
    /\ published = {}

\* the jobs with WebSocket connections registered in each server process;
\* no connection is registered in a worker
InitPubSub ==
    /\ \E subs \in [Servers -> SUBSET JobIds] :
         procs = [p \in Processes |->
                    NewProcess(IF p \in Servers THEN subs[p] ELSE {})]
    /\ published = {}

\* the servers whose listener is running and that hold a connection for job_id
Listening(job_id) ==
    { q \in Servers : procs[q].is_listening /\ job_id \in procs[q].subscribed }

\* main.lifespan, startup: connect() and, if it returned True,
\* start_listening(); when ping() raises, redis_client stays assigned
Lifespan(p, reachable) ==
    /\ p \in Servers
    /\ procs[p].redis_client = "None"
    /\ procs' = [procs EXCEPT ![p].redis_client =
                                  IF reachable THEN "connected" ELSE "unreachable",
                              ![p].is_listening = reachable]
    /\ UNCHANGED published
    /\ UNCHANGED notPubSub

\* main.lifespan, shutdown: disconnect() cancels the listener
Shutdown(p) ==
    /\ procs[p].is_listening
    /\ procs' = [procs EXCEPT ![p].redis_client = "closed",
                              ![p].is_listening = FALSE,
                              ![p].inbox = <<>>]
    /\ UNCHANGED published
    /\ UNCHANGED notPubSub

\* publish_job_update(job_id, message_type, data) in process p, as the
\* publish_job_* helpers and the Celery signal handlers call it: without a
\* redis_client it returns; otherwise the broker hands the message to every
\* subscribed listener
PublishJobUpdate(p, job_id, message_type) ==
    /\ Cardinality(published) < MaxPublished
    /\ [job_id |-> job_id, kind |-> message_type] \notin
           { [job_id |-> m.job_id, kind |-> m.kind] : m \in published }
    /\ published' = published \cup
           {[job_id |-> job_id, kind |-> message_type, by |-> p,
             to |-> Listening(job_id)]}
    /\ procs' =
         IF procs[p].redis_client = "connected"
         THEN [q \in Processes |->
                 IF procs[q].is_listening
                 THEN [procs[q] EXCEPT !.inbox =
                         Append(@, [job_id |-> job_id, message_type |-> message_type])]
                 ELSE procs[q]]
         ELSE procs
    /\ UNCHANGED notPubSub

\* _listen_for_messages in server q: the next message of the channel is
\* forwarded to the connections q holds for its job
Listen(q) ==
    /\ procs[q].is_listening
    /\ procs[q].inbox # <<>>
    /\ LET message == Head(procs[q].inbox)
       IN  procs' = [procs EXCEPT
                       ![q].inbox = Tail(@),
                       ![q].sent =
                          IF message.job_id \in procs[q].subscribed
                          THEN @ \cup {<<message.job_id, ws_type(message.message_type)>>}
                          ELSE @]
    /\ UNCHANGED published
    /\ UNCHANGED notPubSub

NextPubSub ==
    \/ \E p \in Servers, reachable \in BOOLEAN : Lifespan(p, reachable)
    \/ \E p \in Servers : Shutdown(p)
    \/ \E p \in Processes, job_id \in PubJobIds, message_type \in Kinds :
         PublishJobUpdate(p, job_id, message_type)
    \/ \E q \in Servers : Listen(q)

\* every listener task is scheduled
FairPubSub == \A q \in Servers : WF_vars(Listen(q))

\* an event of this kind was published for the job while server q was
\* listening and held a connection for the job
Owed(q, job_id, kind) ==
    \E m \in published : m.job_id = job_id /\ m.kind = kind /\ q \in m.to

\* C25 (as claimed): an event of kind status, progress, complete or error
\* published for a job by any process, the task-queue worker included, is
\* eventually sent to the subscribers of that job in every server process
\* whose listener is running.
C25_PublishedIsDelivered ==
    \A q \in Servers, job_id \in PubJobIds, kind \in Kinds :
        Owed(q, job_id, kind) ~>
            (<<job_id, ws_type(kind)>> \in procs[q].sent \/ ~procs[q].is_listening)

----------------------------------------------------------------------------
(* create_job of the two job managers: ResearchJobManager                    *)
(* (services/research_components), which validates and persists through a   *)
(* repository, and ProductResearchJobManager, which the orchestrator uses    *)

\* if len(items) > 10
JOB_MAX_ITEMS == 10

JobManagers == {"ResearchJobManager", "ProductResearchJobManager"}

\* a product_name of white space only: ProductResearchItem accepts it
BlankName == -1

\* batches of 0..MaxItems items, one of them at most with a blank name; an
\* item with an empty product_name or category cannot be constructed
\* (ProductResearchItem.__post_init__)
CreateBatches ==
    UNION { { [i \in 1..n |-> Item(IF i = at THEN BlankName ELSE i, FALSE)] :
                at \in 0..n } : n \in 0..MaxItems }

\* ResearchJobManager._validate_items: the message of the ValidationException
\* it raises, or "valid"
validate_items(items) ==
    IF Len(items) = 0 THEN "at least one item"
    ELSE IF Len(items) > JOB_MAX_ITEMS THEN "maximum batch size"
    ELSE IF \E i \in 1..Len(items) : items[i].name = BlankName
    THEN "name cannot be empty"
    ELSE "valid"

\* no create_job is looked at
IdleCreateJob ==
    creation = [manager |-> "none", items |-> <<>>, pc |-> "idle",
                raised |-> "none", stored |-> FALSE]

InitCreateJob ==
    \E manager \in JobManagers, items \in CreateBatches :
        creation = [manager |-> manager, items |-> items, pc |-> "ready",
                    raised |-> "none", stored |-> FALSE]

\* the parameters of ValidationException.__init__ (app.core.exceptions names
\* ValidationDomainException so)
ValidationExceptionParams == {"validation_errors", "message", "details"}

\* raise ValidationException(error_code=..., message=...), as the job manager
\* writes it: a keyword the constructor does not take raises TypeError
raise_ValidationException ==
    IF {"error_code", "message"} \subseteq ValidationExceptionParams
    THEN "ValidationException"
    ELSE "TypeError"

\* create_job(items) with the default priority. ResearchJobManager
\* validates, then constructs ProductResearchJob(items=, priority=,
\* callback_url=): the dataclass has no priority field and the constructor
\* raises TypeError before repository.create. ProductResearchJobManager
\* constructs the job, adds the items and stores it in _jobs.
CreateJobCall ==
    /\ creation.pc = "ready"
    /\ creation' =
         IF creation.manager = "ResearchJobManager"
         THEN [creation EXCEPT !.pc = "done",
                               !.raised = IF validate_items(creation.items) # "valid"
                                          THEN raise_ValidationException
                                          ELSE "TypeError"]
         ELSE [creation EXCEPT !.pc = "done", !.stored = TRUE]
    /\ UNCHANGED notCreateJob

NextCreateJob == CreateJobCall

\* C29 (as claimed): create_job called with an empty batch, with a batch over
\* the maximum size or with an item whose name is empty raises a validation
\* error, and that call creates and stores no job.
C29_InvalidBatchRejected ==
    (creation.pc = "done" /\ validate_items(creation.items) # "valid")
    => (creation.raised = "ValidationException" /\ ~creation.stored)

----------------------------------------------------------------------------
(* The end of a background task: the webhook POST made after job.complete(), *)
(* in _process_research_job and _process_research_job_with_preview of the   *)
(* service and in the two _orchestrate_ methods of the orchestrator.        *)

\* what the awaited client.post(callback_url, ...) gives: a response, an error
\* response (no raise_for_status is called), or an exception
PostOutcomes == {"delivered", "error_response", "exception"}

\* the jobs a background task has completed: made, started, and finished on
\* what research_products() returned
CompletedJobs ==
    { job \in UNION { { Finish(Started(IF preview
                                       THEN AddResults(NewJob(items, path, preview, 1),
                                              extract_coupang_preview_results(items, path))
                                       ELSE NewJob(items, path, preview, 1), 1),
                               client_research_products(items, resp), 2) :
                          path \in Paths, preview \in BOOLEAN,
                          resp \in JobResponses(items) } :
                      items \in ItemLists } :
        job.status = "success" }

NoJob == NewJob(<<>>, "none", FALSE, 0)

IdleWebhook ==
    hook = [job |-> NoJob, before |-> NoJob, has_url |-> FALSE, pc |-> "idle",
            outcome |-> "none", escaped |-> FALSE]

InitWebhook ==
    \E job \in CompletedJobs, has_url \in BOOLEAN :
        hook = [job |-> job, before |-> job, has_url |-> has_url,
                pc |-> "completed", outcome |-> "none", escaped |-> FALSE]

\* execute_callback without its try
execute_callback_Propagates(outcome) == outcome = "exception"

\* execute_callback(job) raises: the POST is inside try/except Exception, which
\* logs only
execute_callback(outcome) == FALSE

\* ProductResearchJobManager.update_job_status(job.id, status, message) on a
\* stored job: the status is assigned, then the elif names
\* ResearchStatus.COMPLETED, which the enum does not have
update_job_status(job, status) ==
    [job |-> [job EXCEPT !.status = status,
                         !.started_at = IF status = "processing" /\ @ = 0
                                        THEN 1 ELSE @],
     raised |-> ~(status = "processing" /\ job.started_at = 0)
                /\ "completed" \notin ResearchStatus]

\* the except clause of the background task, by the path of the job
TaskExcept(job) ==
    IF job.path = "orchestrator" /\ ~job.coupang_preview
    THEN update_job_status(job, job.status)
    ELSE [job |-> fail(job, 3), raised |-> FALSE]

\* if "callback_url" in job.metadata: the POST is awaited; without it the task
\* logs and ends
AfterComplete ==
    /\ hook.pc = "completed"
    /\ hook' = [hook EXCEPT !.pc = IF hook.has_url THEN "posting" ELSE "over"]
    /\ UNCHANGED notWebhook

\* the POST returns or raises, and the task runs to its end
PostReturns(outcome) ==
    /\ hook.pc = "posting"
    /\ IF execute_callback(outcome)
       THEN LET h == TaskExcept(hook.job)
            IN  hook' = [hook EXCEPT !.pc = "over", !.outcome = outcome,
                                     !.job = h.job, !.escaped = h.raised]
       ELSE hook' = [hook EXCEPT !.pc = "over", !.outcome = outcome]
    /\ UNCHANGED notWebhook

NextWebhook ==
    \/ AfterComplete
    \/ \E outcome \in PostOutcomes : PostReturns(outcome)

\* C32: a webhook POST that fails, by an exception or by an error response,
\* leaves the job's status, results and counters as complete() left them, and
\* no exception leaves the background task.
C32_WebhookFailureKeepsJob ==
    (hook.pc = "over" /\ hook.outcome \in {"exception", "error_response"})
    => (hook.job = hook.before /\ hook.job.status = "success" /\ ~hook.escaped)

\* the POST of a completed job that holds results raised
C32_Witness ==
    /\ hook.pc = "over"
    /\ hook.outcome = "exception"
    /\ hook.job.status = "success"
    /\ hook.job.results # <<>>

----------------------------------------------------------------------------
(* Cancelling a persisted job: ResearchJobManager.cancel_job                *)
(* (app/services/research_components/job_manager.py) and                    *)
(* ResearchService.cancel_research_job (app/services/research_service.py),  *)
(* both over ResearchJobRepository, whose rows hold a JobStatus.            *)

\* the members of the enum JobStatus
JobStatus == {"pending", "processing", "completed", "failed", "cancelled"}
FinalJobStatus == {"completed", "failed", "cancelled"}

RowIds == {"r1", "r2"}
Cancellers == {"ResearchJobManager", "ResearchService"}

NoRepoCall ==
    [by |-> "none", id |-> "none", found |-> "none", raised |-> "none",
     ret |-> "none", updated |-> FALSE]

IdleRepoCancel ==
    /\ repo_rows = [id \in RowIds |-> "missing"]
    /\ repo_call = NoRepoCall

InitRepoCancel ==
    /\ repo_rows \in [RowIds -> JobStatus \cup {"missing"}]
    /\ repo_call = NoRepoCall

\* the status tests of the two methods: the manager names the three final
\* statuses, the service everything that is neither PENDING nor PROCESSING
Refused(by, status) ==
    IF by = "ResearchJobManager"
    THEN status \in {"completed", "failed"} \/ status = "cancelled"
    ELSE status \notin {"pending", "processing"}

\* the methods of ResearchJobRepository
RepositoryMethods ==
    {"create", "get_by_id", "update_status", "list_pending", "list_active"}

\* cancel_job(id) of the manager, cancel_research_job(id) of the service. The
\* manager writes through repository.update(job), the service through
\* repository.update_status(id, CANCELLED).
CancelCall(by, id) ==
    LET status == repo_rows[id]
        call == [NoRepoCall EXCEPT !.by = by, !.id = id, !.found = status]
    IN  /\ IF status = "missing"
           THEN /\ repo_call' = [call EXCEPT !.ret = "false"]
                /\ UNCHANGED repo_rows
           ELSE IF Refused(by, status)
           THEN /\ repo_call' = [call EXCEPT !.raised =
                                    IF by = "ResearchJobManager"
                                    THEN raise_ValidationException
                                    ELSE "ValueError"]
                /\ UNCHANGED repo_rows
           ELSE IF by = "ResearchJobManager"
           THEN IF "update" \in RepositoryMethods
                THEN /\ repo_rows' = [repo_rows EXCEPT ![id] = "cancelled"]
                     /\ repo_call' = [call EXCEPT !.ret = "true", !.updated = TRUE]
                ELSE /\ repo_call' = [call EXCEPT !.raised = "AttributeError"]
                     /\ UNCHANGED repo_rows
           ELSE /\ repo_rows' = [repo_rows EXCEPT ![id] = "cancelled"]
                /\ repo_call' = [call EXCEPT !.ret = "true", !.updated = TRUE]
        /\ UNCHANGED notRepoCancel

NextRepoCancel == \E by \in Cancellers, id \in RowIds : CancelCall(by, id)

\* C35 (as claimed): cancel_job of ResearchJobManager and cancel_research_job of
\* ResearchService, on a job whose status is completed, failed or cancelled,
\* raise a validation error and make no repository update: every stored job
\* is as it was.
C35_FinalJobNotCancelled ==
    [][\A by \in Cancellers, id \in RowIds :
          (CancelCall(by, id) /\ repo_rows[id] \in FinalJobStatus)
          => /\ repo_call'.raised \in {"ValidationException", "ValueError"}
             /\ ~repo_call'.updated
             /\ repo_rows' = repo_rows]_vars

----------------------------------------------------------------------------
(* ResearchExecutor.execute_research_with_retries                           *)
(* (app/services/research_components/executor.py)                           *)

MaxRetries == 3

\* the members of the enum ErrorCode (app/schemas/error_responses.py)
ErrorCode ==
    {"VALIDATION_ERROR", "INVALID_REQUEST", "INVALID_UUID_FORMAT",
     "BATCH_SIZE_EXCEEDED", "MISSING_REQUIRED_FIELDS",
     "RESOURCE_NOT_FOUND", "JOB_NOT_FOUND", "TASK_NOT_FOUND",
     "JOB_CANNOT_BE_CANCELLED", "RATE_LIMIT_EXCEEDED",
     "TOO_MANY_CONCURRENT_REQUESTS", "COUPANG_DATA_UNAVAILABLE",
     "COUPANG_PARTIAL_DATA", "COUPANG_EXTRACTION_FAILED",
     "SEO_GENERATION_FAILED", "CONTENT_LENGTH_EXCEEDED",
     "KEYWORD_VALIDATION_FAILED", "SEO_TEMPLATE_NOT_FOUND",
     "GPT_API_ERROR", "GPT_API_TIMEOUT", "GPT_API_QUOTA_EXCEEDED",
     "GPT_CONTENT_POLICY_VIOLATION", "GPT_TOKEN_LIMIT_EXCEEDED",
     "EXTERNAL_API_ERROR", "PERPLEXITY_API_ERROR",
     "PERPLEXITY_API_TIMEOUT", "PERPLEXITY_API_UNAVAILABLE",
     "INTERNAL_SERVER_ERROR", "DATABASE_ERROR", "BACKGROUND_TASK_ERROR",
     "SERVICE_UNAVAILABLE"}

\* what one execute_research(job) gives: results, an ExternalServiceException
\* with an error code, or another exception
AttemptOutcomes ==
    {[kind |-> "results", code |-> "none"], [kind |-> "other", code |-> "none"]}
    \cup { [kind |-> "ExternalServiceException", code |-> c] : c \in ErrorCode }

\* the names _should_retry_research puts in retryable_errors
retryable_errors == {"RATE_LIMIT_ERROR", "TIMEOUT_ERROR", "EXTERNAL_SERVICE_ERROR"}

\* _should_retry_research(e): "true", "false", or the AttributeError of naming
\* an ErrorCode member that does not exist
should_retry_research(code) ==
    IF ~(retryable_errors \subseteq ErrorCode) THEN "AttributeError"
    ELSE IF code \in retryable_errors THEN "true"
    ELSE "false"

IdleRetry ==
    retry = [max_retries |-> 0, attempt |-> 0, calls |-> 0, codes |-> <<>>,
             pc |-> "idle", raised |-> "none"]

InitRetry ==
    \E max_retries \in 0..MaxRetries :
        retry = [max_retries |-> max_retries, attempt |-> 0, calls |-> 0,
                 codes |-> <<>>, pc |-> "calling", raised |-> "none"]

\* one turn of the loop: execute_research(job) is awaited and, after an
\* ExternalServiceException, the method decides to stop or sleeps and goes on
Attempt(outcome) ==
    /\ retry.pc = "calling"
    /\ retry.attempt <= retry.max_retries
    /\ LET called == [retry EXCEPT !.calls = @ + 1]
           caught == [called EXCEPT !.codes = Append(@, outcome.code)]
       IN  retry' =
             CASE outcome.kind = "results" -> [called EXCEPT !.pc = "returned"]
               [] outcome.kind = "other" ->
                     [called EXCEPT !.pc = "raised", !.raised = "other"]
               [] OTHER ->
                     IF retry.attempt = retry.max_retries
                     THEN [caught EXCEPT !.pc = "raised", !.raised = "last_exception"]
                     ELSE CASE should_retry_research(outcome.code) = "AttributeError" ->
                                 [caught EXCEPT !.pc = "raised",
                                                !.raised = "AttributeError"]
                            [] should_retry_research(outcome.code) = "false" ->
                                 [caught EXCEPT !.pc = "raised",
                                                !.raised = "last_exception"]
                            [] OTHER -> [caught EXCEPT !.attempt = @ + 1]
    /\ UNCHANGED notRetry

NextRetry == \E outcome \in AttemptOutcomes : Attempt(outcome)

\* the error codes the research clients give a rate limit and a timeout, the
\* failures retryable_errors is meant to name
RateLimitOrTimeout == {"RATE_LIMIT_EXCEEDED", "PERPLEXITY_API_TIMEOUT"}

\* C36 (as claimed): execute_research_with_retries calls the research
\* operation max_retries + 1 times at most; and when every attempt fails with
\* a retryable error (a rate limit, a timeout) it makes exactly
\* max_retries + 1 attempts and then raises the last error again.
C36_RetriesThenReraises ==
    /\ retry.calls <= retry.max_retries + 1
    /\ (/\ retry.pc = "raised"
        /\ Len(retry.codes) = retry.calls
        /\ \A i \in 1..Len(retry.codes) : retry.codes[i] \in RateLimitOrTimeout)
       => /\ retry.calls = retry.max_retries + 1
          /\ retry.raised = "last_exception"

----------------------------------------------------------------------------
(* ConnectionManager (app/core/websocket_manager.py): connect, disconnect   *)
(* and send_message_to_job as tasks of one event loop. What runs between    *)
(* two awaits is one step; connection_lock is never held across an await,   *)
(* so taking it never waits.                                                *)

MaxCmSockets == 3

CmSockets == 1..MaxCmSockets
CmJobIds == {"J", "K"}

\* the elements of a list
Elements(list) == { list[i] : i \in 1..Len(list) }

\* list.remove(x): the first x is taken out
RECURSIVE Remove(_, _)
Remove(list, x) ==
    IF list = <<>> THEN <<>>
    ELSE IF Head(list) = x THEN Tail(list)
    ELSE <<Head(list)>> \o Remove(Tail(list), x)

\* a dict without a key
Without_key(dict, key) == [k \in DOMAIN dict \ {key} |-> dict[k]]

NoCast ==
    [job |-> "none", connections |-> <<>>, next |-> 1, disconnected |-> <<>>,
     pc |-> "idle", delivered |-> {}, stray |-> FALSE]

IdleManager ==
    /\ cm_job_connections = << >>
    /\ cm_connection_jobs = << >>
    /\ cm_socket = [ws \in CmSockets |-> [state |-> "idle", pending |-> "none"]]
    /\ cm_cast = NoCast

\* ConnectionManager(): two empty dicts; no socket was accepted yet
InitManager ==
    /\ cm_job_connections = << >>
    /\ cm_connection_jobs = << >>
    /\ cm_socket = [ws \in CmSockets |-> [state |-> "new", pending |-> "none"]]
    /\ cm_cast = NoCast

\* the locked part of connect
registered(dicts, ws, job_id) ==
    [job_connections |->
        IF job_id \in DOMAIN dicts.job_connections
        THEN [dicts.job_connections EXCEPT ![job_id] = Append(@, ws)]
        ELSE dicts.job_connections @@ (job_id :> <<ws>>),
     connection_jobs |->
        IF ws \in DOMAIN dicts.connection_jobs
        THEN [dicts.connection_jobs EXCEPT ![ws] = job_id]
        ELSE dicts.connection_jobs @@ (ws :> job_id)]

\* disconnect that leaves the empty list of a job in job_connections
disconnect_KeepsEmptyList(dicts, ws) ==
    IF ws \notin DOMAIN dicts.connection_jobs THEN dicts
    ELSE LET job_id == dicts.connection_jobs[ws]
         IN  [job_connections |->
                 IF /\ job_id \in DOMAIN dicts.job_connections
                    /\ ws \in Elements(dicts.job_connections[job_id])
                 THEN [dicts.job_connections EXCEPT ![job_id] = Remove(@, ws)]
                 ELSE dicts.job_connections,
              connection_jobs |-> Without_key(dicts.connection_jobs, ws)]

\* disconnect(websocket), all of it under the lock; list.remove of a socket
\* that is not in the list raises ValueError, which is passed over
disconnect(dicts, ws) ==
    IF ws \notin DOMAIN dicts.connection_jobs THEN dicts
    ELSE LET job_id == dicts.connection_jobs[ws]
         IN  [job_connections |->
                 IF /\ job_id \in DOMAIN dicts.job_connections
                    /\ ws \in Elements(dicts.job_connections[job_id])
                 THEN IF Remove(dicts.job_connections[job_id], ws) = <<>>
                      THEN Without_key(dicts.job_connections, job_id)
                      ELSE [dicts.job_connections EXCEPT ![job_id] = Remove(@, ws)]
                 ELSE dicts.job_connections,
              connection_jobs |-> Without_key(dicts.connection_jobs, ws)]

\* the two dicts of the manager
Dicts == [job_connections |-> cm_job_connections,
          connection_jobs |-> cm_connection_jobs]

\* for websocket in disconnected_connections: await self.disconnect(websocket)
RECURSIVE DisconnectAll(_, _)
DisconnectAll(dicts, list) ==
    IF list = <<>> THEN dicts
    ELSE DisconnectAll(disconnect(dicts, Head(list)), Tail(list))

\* connect(websocket, job_id) up to its await of websocket.accept()
ConnectCall(ws, job_id) ==
    /\ cm_socket[ws].pending = "none"
    /\ cm_socket' = [cm_socket EXCEPT ![ws].pending = job_id]
    /\ UNCHANGED <<cm_job_connections, cm_connection_jobs, cm_cast>>
    /\ UNCHANGED notManager

\* accept() returns or raises, and connect runs to its end. accept() raises
\* when the peer is gone (ok = FALSE) and on a socket accept() was called on
\* before; connect then returns False.
ConnectAccept(ws, ok) ==
    /\ cm_socket[ws].pending # "none"
    /\ IF ok /\ cm_socket[ws].state = "new"
       THEN LET d == registered(Dicts, ws, cm_socket[ws].pending)
            IN  /\ cm_job_connections' = d.job_connections
                /\ cm_connection_jobs' = d.connection_jobs
                /\ cm_socket' = [cm_socket EXCEPT ![ws] =
                                    [state |-> "accepted", pending |-> "none"]]
       ELSE /\ cm_socket' = [cm_socket EXCEPT ![ws] =
                               [state |-> IF @.state = "new" THEN "failed"
                                          ELSE @.state,
                                pending |-> "none"]]
            /\ UNCHANGED <<cm_job_connections, cm_connection_jobs>>
    /\ UNCHANGED cm_cast
    /\ UNCHANGED notManager

\* disconnect(websocket)
Disconnect(ws) ==
    /\ LET d == disconnect(Dicts, ws)
       IN  /\ cm_job_connections' = d.job_connections
           /\ cm_connection_jobs' = d.connection_jobs
    /\ UNCHANGED <<cm_socket, cm_cast>>
    /\ UNCHANGED notManager

\* send_message_to_job up to its first await: the key is looked up and the
\* list copied, without the lock
SendCall(job_id) ==
    /\ cm_cast.pc \in {"idle", "done"}
    /\ cm_cast' =
        IF job_id \notin DOMAIN cm_job_connections
        THEN [NoCast EXCEPT !.job = job_id, !.pc = "done"]
        ELSE [NoCast EXCEPT
                !.job = job_id,
                !.connections = cm_job_connections[job_id],
                !.pc = IF cm_job_connections[job_id] = <<>> THEN "done"
                       ELSE "sending"]
    /\ UNCHANGED <<cm_job_connections, cm_connection_jobs, cm_socket>>
    /\ UNCHANGED notManager

\* a loop in which the first send that raises ends the sending
after_send_StopsOnFailure(cast, ok) ==
    IF ok
    THEN [cast EXCEPT !.delivered = @ \cup {cast.connections[cast.next]},
                      !.next = @ + 1]
    ELSE [cast EXCEPT !.disconnected = Append(@, cast.connections[cast.next]),
                      !.next = Len(cast.connections) + 1]

\* one turn of the loop over the copy: send_text returned (ok) or raised
after_send(cast, ok) ==
    IF ok
    THEN [cast EXCEPT !.delivered = @ \cup {cast.connections[cast.next]},
                      !.next = @ + 1]
    ELSE [cast EXCEPT !.disconnected = Append(@, cast.connections[cast.next]),
                      !.next = @ + 1]

\* the awaited send_text of one socket of the copy ends; after the last one
\* the sockets whose send raised are disconnected and the call returns
SendText(ok) ==
    /\ cm_cast.pc = "sending"
    /\ LET ws == cm_cast.connections[cm_cast.next]
           elsewhere == /\ ws \in DOMAIN cm_connection_jobs
                        /\ cm_connection_jobs[ws] # cm_cast.job
           after == [after_send(cm_cast, ok) EXCEPT
                        !.stray = cm_cast.stray \/ elsewhere]
       IN  IF after.next > Len(after.connections)
           THEN LET d == DisconnectAll(Dicts, after.disconnected)
                IN  /\ cm_cast' = [after EXCEPT !.pc = "done"]
                    /\ cm_job_connections' = d.job_connections
                    /\ cm_connection_jobs' = d.connection_jobs
           ELSE /\ cm_cast' = after
                /\ UNCHANGED <<cm_job_connections, cm_connection_jobs>>
    /\ UNCHANGED cm_socket
    /\ UNCHANGED notManager

NextManager ==
    \/ \E ws \in CmSockets, job_id \in CmJobIds : ConnectCall(ws, job_id)
    \/ \E ws \in CmSockets, ok \in BOOLEAN : ConnectAccept(ws, ok)
    \/ \E ws \in CmSockets : Disconnect(ws)
    \/ \E job_id \in CmJobIds : SendCall(job_id)
    \/ \E ok \in BOOLEAN : SendText(ok)

\* the jobs a socket is listed under
ListedUnder(ws) ==
    { j \in DOMAIN cm_job_connections : ws \in Elements(cm_job_connections[j]) }

\* C37: after any connects and disconnects (and broadcasts) a socket is listed
\* under job_connections[j] exactly when connection_jobs[socket] = j, no job
\* id maps to an empty list, and disconnect of a socket that is not
\* registered changes neither dict.
C37_DictsAgree ==
    /\ [](\A ws \in CmSockets : \A j \in CmJobIds :
            j \in ListedUnder(ws)
                <=> (ws \in DOMAIN cm_connection_jobs /\ cm_connection_jobs[ws] = j))
    /\ [](\A j \in DOMAIN cm_job_connections : cm_job_connections[j] # <<>>)
    /\ [][\A ws \in CmSockets :
            Disconnect(ws) /\ ws \notin DOMAIN cm_connection_jobs
                => UNCHANGED <<cm_job_connections, cm_connection_jobs>>]_vars

\* one socket is left registered, alone under its job, after another socket
\* that had been accepted was disconnected (the last of its job, or not) and
\* the accept of a third was refused
C37_Witness ==
    /\ Cardinality(DOMAIN cm_job_connections) = 1
    /\ \E j \in DOMAIN cm_job_connections : Len(cm_job_connections[j]) = 1
    /\ \E ws \in CmSockets :
        /\ cm_socket[ws].state = "accepted"
        /\ ws \notin DOMAIN cm_connection_jobs
    /\ \E ws \in CmSockets : cm_socket[ws].state = "failed"

----------------------------------------------------------------------------
(* The listener task of RedisPubSubManager (app/core/redis_pubsub.py):      *)
(* _listen_for_messages takes the messages of the channel one by one and    *)
(* hands each to _forward_to_websocket                                      *)

\* messages the broker hands the listener, at most
MaxBrokerMessages == 3

ListenerJobIds == {"j1", "j2"}

\* message_type of a JobUpdateMessage: a str, whatever its value
MessageTypes == Kinds \cup {"other"}

\* message["data"]: a text that is no JSON, JSON that is no object, an object
\* that lacks a field of JobUpdateMessage, or a JobUpdateMessage as
\* publish_job_update writes it; the count of a subscribe confirmation
Payloads ==
    { [form |-> f, job_id |-> "", message_type |-> ""] :
        f \in {"not_json", "not_object", "not_job_update"} }
    \cup [form : {"job_update"}, job_id : ListenerJobIds,
          message_type : MessageTypes]

BrokerMessages ==
    {[type |-> "subscribe",
      data |-> [form |-> "count", job_id |-> "", message_type |-> ""]]}
    \cup [type : {"message"}, data : Payloads]

\* json.loads(message["data"]) and JobUpdateMessage(**data): what is raised,
\* or "ok"
decode(data) ==
    CASE data.form = "not_json" -> "JSONDecodeError"
      [] data.form = "not_object" -> "TypeError"
      [] data.form = "not_job_update" -> "ValidationError"
      [] OTHER -> "ok"

IdleListener ==
    /\ channel = <<>>
    /\ listener = [running |-> FALSE, received |-> <<>>, forwarded |-> <<>>]

\* start_listening() has created the task
InitListener ==
    /\ channel = <<>>
    /\ listener = [running |-> TRUE, received |-> <<>>, forwarded |-> <<>>]

\* a loop without the try around the handling of one message: what a message
\* raises reaches the handler around the loop, which ends the listener
handle_NoInnerTry(message, raises) ==
    IF message.type # "message" THEN [sent |-> <<>>, running |-> TRUE]
    ELSE IF decode(message.data) # "ok" THEN [sent |-> <<>>, running |-> FALSE]
    ELSE IF ws_type(message.data.message_type) = "none" \/ raises
    THEN [sent |-> <<>>, running |-> TRUE]
    ELSE [sent |-> << <<message.data.job_id, ws_type(message.data.message_type)>> >>,
          running |-> TRUE]

\* the body of the loop for one message; raises: the send_job_* call of
\* _forward_to_websocket raises. sent: the call that returned; running: the
\* loop goes on
handle(message, raises) ==
    IF message.type # "message" THEN [sent |-> <<>>, running |-> TRUE]
    ELSE IF decode(message.data) # "ok" THEN [sent |-> <<>>, running |-> TRUE]
    ELSE IF ws_type(message.data.message_type) = "none" \/ raises
    THEN [sent |-> <<>>, running |-> TRUE]
    ELSE [sent |-> << <<message.data.job_id, ws_type(message.data.message_type)>> >>,
          running |-> TRUE]

\* the broker has a message for the subscriber
Deliver(message) ==
    /\ Len(channel) + Len(listener.received) < MaxBrokerMessages
    /\ channel' = Append(channel, message)
    /\ UNCHANGED listener
    /\ UNCHANGED notListener

\* one turn of async for message in self.pubsub.listen()
Receive(raises) ==
    /\ listener.running
    /\ channel # <<>>
    /\ LET message == Head(channel)
           h == handle(message, raises)
           forwardable == /\ message.type = "message"
                          /\ decode(message.data) = "ok"
                          /\ ws_type(message.data.message_type) # "none"
       IN  listener' = [running |-> h.running,
                        received |-> Append(listener.received,
                                        [message |-> message,
                                         raised |-> forwardable /\ raises]),
                        forwarded |-> listener.forwarded \o h.sent]
    /\ channel' = Tail(channel)
    /\ UNCHANGED notListener

\* disconnect(): is_listening = False and the task is cancelled
StopListening ==
    /\ listener.running
    /\ listener' = [listener EXCEPT !.running = FALSE]
    /\ UNCHANGED channel
    /\ UNCHANGED notListener

NextListener ==
    \/ \E message \in BrokerMessages : Deliver(message)
    \/ \E raises \in BOOLEAN : Receive(raises)
    \/ StopListening

\* a received message that was decoded, has one of the four message types
\* and whose forwarding did not raise
ValidReceived(r) ==
    /\ r.message.type = "message"
    /\ decode(r.message.data) = "ok"
    /\ r.message.data.message_type \in Kinds
    /\ ~r.raised

\* the job ids of the valid messages among the received ones, with their
\* message types, in the order received
RECURSIVE ValidOf(_)
ValidOf(received) ==
    IF received = <<>> THEN <<>>
    ELSE (IF ValidReceived(Head(received))
          THEN << <<Head(received).message.data.job_id,
                    Head(received).message.data.message_type>> >>
          ELSE <<>>) \o ValidOf(Tail(received))

\* the job ids and message types the forwarded WebSocket messages stand for
ForwardedAs ==
    [i \in 1..Len(listener.forwarded) |->
        <<listener.forwarded[i][1],
          CHOOSE k \in Kinds : ws_type(k) = listener.forwarded[i][2]>>]

\* C40: a broker message that cannot be decoded or forwarded, or whose
\* message_type is none of status, progress, complete and error, is dropped
\* and the listener stays in its loop; the messages forwarded are at all
\* times the valid messages received, in the order received.
C40_BadMessageIsDropped ==
    /\ [](ForwardedAs = ValidOf(listener.received))
    /\ [][(\E raises \in BOOLEAN : Receive(raises))
            => LET r == listener'.received[Len(listener'.received)]
               IN  /\ listener'.running
                   /\ ~ValidReceived(r) => listener'.forwarded = listener.forwarded
                   /\ ValidReceived(r) =>
                         Len(listener'.forwarded) = Len(listener.forwarded) + 1]_vars

\* a message that is no JSON, then one whose forwarding raised or whose type
\* is unknown, then a valid one were received; the valid one was forwarded
\* and the listener is in its loop
C40_Witness ==
    /\ listener.running
    /\ Len(listener.received) = 3
    /\ decode(listener.received[1].message.data) = "JSONDecodeError"
    /\ \/ listener.received[2].raised
       \/ listener.received[2].message.data.message_type = "other"
    /\ ValidReceived(listener.received[3])
    /\ Len(listener.forwarded) = 1

----------------------------------------------------------------------------
(* The specifications: one per component, the others at rest *)

StartBreaker == InitBreaker /\ IdleResearch /\ IdleJobs /\ IdleMerge /\ IdleRegistry /\ IdleWs /\ IdleWsLoop /\ IdlePubSub /\ IdleCreateJob /\ IdleWebhook /\ IdleRepoCancel /\ IdleRetry /\ IdleManager /\ IdleListener
SpecBreaker == StartBreaker /\ [][NextBreaker]_vars

StartResearch == InitResearch /\ InitBreaker /\ IdleJobs /\ IdleMerge /\ IdleRegistry /\ IdleWs /\ IdleWsLoop /\ IdlePubSub /\ IdleCreateJob /\ IdleWebhook /\ IdleRepoCancel /\ IdleRetry /\ IdleManager /\ IdleListener
SpecResearch == StartResearch /\ [][NextResearch]_vars

StartJobs == InitJobs /\ InitBreaker /\ IdleResearch /\ IdleMerge /\ IdleRegistry /\ IdleWs /\ IdleWsLoop /\ IdlePubSub /\ IdleCreateJob /\ IdleWebhook /\ IdleRepoCancel /\ IdleRetry /\ IdleManager /\ IdleListener
SpecJobs == StartJobs /\ [][NextJobs]_vars
SpecJobsFair == StartJobs /\ [][NextJobs]_vars /\ FairJobs

StartMerge == InitMerge /\ InitBreaker /\ IdleResearch /\ IdleJobs /\ IdleRegistry /\ IdleWs /\ IdleWsLoop /\ IdlePubSub /\ IdleCreateJob /\ IdleWebhook /\ IdleRepoCancel /\ IdleRetry /\ IdleManager /\ IdleListener
SpecMerge == StartMerge /\ [][NextMerge]_vars

StartRegistry == InitRegistry /\ InitBreaker /\ IdleResearch /\ IdleJobs /\ IdleMerge /\ IdleWs /\ IdleWsLoop /\ IdlePubSub /\ IdleCreateJob /\ IdleWebhook /\ IdleRepoCancel /\ IdleRetry /\ IdleManager /\ IdleListener
SpecRegistry == StartRegistry /\ [][NextRegistry]_vars

StartWs == InitWs /\ InitBreaker /\ IdleResearch /\ IdleJobs /\ IdleMerge /\ IdleRegistry /\ IdleWsLoop /\ IdlePubSub /\ IdleCreateJob /\ IdleWebhook /\ IdleRepoCancel /\ IdleRetry /\ IdleManager /\ IdleListener
SpecWs == StartWs /\ [][NextWs]_vars

StartWsLoop ==
    /\ InitWsLoop /\ InitBreaker /\ IdleResearch /\ IdleJobs /\ IdleMerge
    /\ IdleRegistry /\ IdleWs /\ IdlePubSub /\ IdleCreateJob /\ IdleWebhook /\ IdleRepoCancel /\ IdleRetry /\ IdleManager /\ IdleListener
SpecWsLoop == StartWsLoop /\ [][NextWsLoop]_vars /\ FairWsLoop

StartPubSub ==
    /\ InitPubSub /\ InitBreaker /\ IdleResearch /\ IdleJobs /\ IdleMerge
    /\ IdleRegistry /\ IdleWs /\ IdleWsLoop /\ IdleCreateJob /\ IdleWebhook /\ IdleRepoCancel /\ IdleRetry /\ IdleManager /\ IdleListener
SpecPubSub == StartPubSub /\ [][NextPubSub]_vars /\ FairPubSub

StartCreateJob ==
    /\ InitCreateJob /\ InitBreaker /\ IdleResearch /\ IdleJobs /\ IdleMerge
    /\ IdleRegistry /\ IdleWs /\ IdleWsLoop /\ IdlePubSub /\ IdleWebhook /\ IdleRepoCancel /\ IdleRetry /\ IdleManager /\ IdleListener
SpecCreateJob == StartCreateJob /\ [][NextCreateJob]_vars

StartWebhook ==
    /\ InitWebhook /\ InitBreaker /\ IdleResearch /\ IdleJobs /\ IdleMerge
    /\ IdleRegistry /\ IdleWs /\ IdleWsLoop /\ IdlePubSub /\ IdleCreateJob /\ IdleRepoCancel /\ IdleRetry /\ IdleManager /\ IdleListener
SpecWebhook == StartWebhook /\ [][NextWebhook]_vars

StartRepoCancel ==
    /\ InitRepoCancel /\ InitBreaker /\ IdleResearch /\ IdleJobs /\ IdleMerge
    /\ IdleRegistry /\ IdleWs /\ IdleWsLoop /\ IdlePubSub /\ IdleCreateJob
    /\ IdleWebhook /\ IdleRetry /\ IdleManager /\ IdleListener
SpecRepoCancel == StartRepoCancel /\ [][NextRepoCancel]_vars

StartRetry ==
    /\ InitRetry /\ InitBreaker /\ IdleResearch /\ IdleJobs /\ IdleMerge
    /\ IdleRegistry /\ IdleWs /\ IdleWsLoop /\ IdlePubSub /\ IdleCreateJob
    /\ IdleWebhook /\ IdleRepoCancel /\ IdleManager /\ IdleListener
SpecRetry == StartRetry /\ [][NextRetry]_vars

StartManager ==
    /\ InitManager /\ InitBreaker /\ IdleResearch /\ IdleJobs /\ IdleMerge
    /\ IdleRegistry /\ IdleWs /\ IdleWsLoop /\ IdlePubSub /\ IdleCreateJob
    /\ IdleWebhook /\ IdleRepoCancel /\ IdleRetry /\ IdleListener
SpecManager == StartManager /\ [][NextManager]_vars

StartListener ==
    /\ InitListener /\ InitBreaker /\ IdleResearch /\ IdleJobs /\ IdleMerge
    /\ IdleRegistry /\ IdleWs /\ IdleWsLoop /\ IdlePubSub /\ IdleCreateJob
    /\ IdleWebhook /\ IdleRepoCancel /\ IdleRetry /\ IdleManager
SpecListener == StartListener /\ [][NextListener]_vars
====
